---- MODULE Spec2Model ----
(***************************************************************************)
(* State-machine model of the Azure DevOps pipeline tool server            *)
(* (server.py) and of its simplified variant (server_simple.py): the       *)
(* process-wide caches, the external command runner, the authentication    *)
(* check, the name resolver, the bulk trigger loop and the list of runs.   *)
(* Every tool call is one atomic action (the server is single-threaded     *)
(* and synchronous); the answers of the external az process are the        *)
(* nondeterministic inputs of each action.                                 *)
(***************************************************************************)
EXTENDS Integers, Sequences, FiniteSets, TLC

VARIABLES
  now,                \* datetime.datetime.now().timestamp(), in seconds
  azure_cli_path,     \* _azure_cli_path
  auth_status_cache,  \* _auth_status_cache
  auth_cache_time,    \* _auth_cache_time
  last,               \* the most recent tool call: what it returned and what it ran
  callers,            \* the calls of check_azure_cli_auth() that threads are in
  call                \* a bb7_trigger_bulk call followed statement by statement

vars == <<now, azure_cli_path, auth_status_cache, auth_cache_time, last, callers, call>>

(***************************************************************************)
(* Bounds of the model.                                                    *)
(***************************************************************************)
MaxTime == 449
MaxCalls == 3
MaxAuthCalls == 1
MaxCount == 3
MaxCatalog == 2

(***************************************************************************)
(* Python values.                                                          *)
(***************************************************************************)
None == [t |-> "None"]
Dict(v) == [t |-> "dict", v |-> v]
List(v) == [t |-> "list", v |-> v]
IsDict(d) == d.t = "dict"
IsList(d) == d.t = "list"
\* the exception that left a function, if one did
NoException == "None"
\* dict.get(key, default), and dict.get(key) with the default None
GetOr(d, k, default) == IF k \in DOMAIN d.v THEN d.v[k] ELSE default
Get(d, k) == GetOr(d, k, None)

AUTH_CACHE_DURATION == 300

(***************************************************************************)
(* Texts, spelled out so that str.lower() and the substring test are       *)
(* computed on the characters.                                             *)
(***************************************************************************)
Chars ==
  ("" :> <<>>) @@
  ("\n" :> <<"\n">>) @@
  ("Unauthorized: token expired" :> <<"U","n","a","u","t","h","o","r","i","z","e","d",":"," ","t","o","k","e","n"," ","e","x","p","i","r","e","d">>) @@
  ("Please run 'az login' to setup account." :> <<"P","l","e","a","s","e"," ","r","u","n"," ","'","a","z"," ","l","o","g","i","n","'"," ","t","o"," ","s","e","t","u","p"," ","a","c","c","o","u","n","t",".">>) @@
  ("ERROR: AUTHENTICATION failed" :> <<"E","R","R","O","R",":"," ","A","U","T","H","E","N","T","I","C","A","T","I","O","N"," ","f","a","i","l","e","d">>) @@
  ("Invalid Credential" :> <<"I","n","v","a","l","i","d"," ","C","r","e","d","e","n","t","i","a","l">>) @@
  ("Pipeline not found" :> <<"P","i","p","e","l","i","n","e"," ","n","o","t"," ","f","o","u","n","d">>) @@
  ("Unauthorized: token expired\n" :> <<"U","n","a","u","t","h","o","r","i","z","e","d",":"," ","t","o","k","e","n"," ","e","x","p","i","r","e","d","\n">>) @@
  ("Please run 'az login' to setup account.\n" :> <<"P","l","e","a","s","e"," ","r","u","n"," ","'","a","z"," ","l","o","g","i","n","'"," ","t","o"," ","s","e","t","u","p"," ","a","c","c","o","u","n","t",".","\n">>) @@
  ("ERROR: AUTHENTICATION failed\n" :> <<"E","R","R","O","R",":"," ","A","U","T","H","E","N","T","I","C","A","T","I","O","N"," ","f","a","i","l","e","d","\n">>) @@
  ("Invalid Credential\n" :> <<"I","n","v","a","l","i","d"," ","C","r","e","d","e","n","t","i","a","l","\n">>) @@
  ("Pipeline not found\n" :> <<"P","i","p","e","l","i","n","e"," ","n","o","t"," ","f","o","u","n","d","\n">>) @@
  ("azure-cli 2.60.0" :> <<"a","z","u","r","e","-","c","l","i"," ","2",".","6","0",".","0">>) @@
  ("{\"user\": {\"name\": \"alice\"}}" :> <<"{","\"","u","s","e","r","\"",":"," ","{","\"","n","a","m","e","\"",":"," ","\"","a","l","i","c","e","\"","}","}">>) @@
  ("{\"name\": \"azure-devops\"}" :> <<"{","\"","n","a","m","e","\"",":"," ","\"","a","z","u","r","e","-","d","e","v","o","p","s","\"","}">>) @@
  ("{\"id\": 101, \"state\": \"inProgress\"}" :> <<"{","\"","i","d","\"",":"," ","1","0","1",","," ","\"","s","t","a","t","e","\"",":"," ","\"","i","n","P","r","o","g","r","e","s","s","\"","}">>) @@
  ("azure-cli 2.60.0\n" :> <<"a","z","u","r","e","-","c","l","i"," ","2",".","6","0",".","0","\n">>) @@
  ("{\"user\": {\"name\": \"alice\"}}\n" :> <<"{","\"","u","s","e","r","\"",":"," ","{","\"","n","a","m","e","\"",":"," ","\"","a","l","i","c","e","\"","}","}","\n">>) @@
  ("{\"name\": \"azure-devops\"}\n" :> <<"{","\"","n","a","m","e","\"",":"," ","\"","a","z","u","r","e","-","d","e","v","o","p","s","\"","}","\n">>) @@
  ("{\"id\": 101, \"state\": \"inProgress\"}\n" :> <<"{","\"","i","d","\"",":"," ","1","0","1",","," ","\"","s","t","a","t","e","\"",":"," ","\"","i","n","P","r","o","g","r","e","s","s","\"","}","\n">>) @@
  ("Command timed out after 30 seconds" :> <<"C","o","m","m","a","n","d"," ","t","i","m","e","d"," ","o","u","t"," ","a","f","t","e","r"," ","3","0"," ","s","e","c","o","n","d","s">>) @@
  ("[Errno 13] Permission denied" :> <<"[","E","r","r","n","o"," ","1","3","]"," ","P","e","r","m","i","s","s","i","o","n"," ","d","e","n","i","e","d">>) @@
  ("Azure CLI not found. Please install Azure CLI from https://docs.microsoft.com/en-us/cli/azure/install-azure-cli" :> <<"A","z","u","r","e"," ","C","L","I"," ","n","o","t"," ","f","o","u","n","d","."," ","P","l","e","a","s","e"," ","i","n","s","t","a","l","l"," ","A","z","u","r","e"," ","C","L","I"," ","f","r","o","m"," ","h","t","t","p","s",":","/","/","d","o","c","s",".","m","i","c","r","o","s","o","f","t",".","c","o","m","/","e","n","-","u","s","/","c","l","i","/","a","z","u","r","e","/","i","n","s","t","a","l","l","-","a","z","u","r","e","-","c","l","i">>) @@
  ("authentication" :> <<"a","u","t","h","e","n","t","i","c","a","t","i","o","n">>) @@
  ("unauthorized" :> <<"u","n","a","u","t","h","o","r","i","z","e","d">>) @@
  ("login" :> <<"l","o","g","i","n">>) @@
  ("authenticate" :> <<"a","u","t","h","e","n","t","i","c","a","t","e">>) @@
  ("credential" :> <<"c","r","e","d","e","n","t","i","a","l">>) @@
  ("integration-main" :> <<"i","n","t","e","g","r","a","t","i","o","n","-","m","a","i","n">>) @@
  ("integration-test" :> <<"i","n","t","e","g","r","a","t","i","o","n","-","t","e","s","t">>) @@
  ("deploy-prod" :> <<"d","e","p","l","o","y","-","p","r","o","d">>) @@
  ("Deploy-Prod" :> <<"D","e","p","l","o","y","-","P","r","o","d">>) @@
  (" Int " :> <<" ","I","n","t"," ">>) @@
  ("int" :> <<"i","n","t">>) @@
  ("integration" :> <<"i","n","t","e","g","r","a","t","i","o","n">>) @@
  ("deploy" :> <<"d","e","p","l","o","y">>) @@
  ("test" :> <<"t","e","s","t">>) @@
  ("build" :> <<"b","u","i","l","d">>) @@
  ("nomatch" :> <<"n","o","m","a","t","c","h">>) @@
  ("Command timed out" :> <<"C","o","m","m","a","n","d"," ","t","i","m","e","d"," ","o","u","t">>) @@
  ("[]" :> <<"[","]">>) @@
  ("[{\"id\": 1}, {\"id\": 2}]" :> <<"[","{","\"","i","d","\"",":"," ","1","}",","," ","{","\"","i","d","\"",":"," ","2","}","]">>) @@
  ("[{\"id\": 1}, {\"id\": 2}, {\"id\": 3}]" :> <<"[","{","\"","i","d","\"",":"," ","1","}",","," ","{","\"","i","d","\"",":"," ","2","}",","," ","{","\"","i","d","\"",":"," ","3","}","]">>) @@
  ("[]\n" :> <<"[","]","\n">>) @@
  ("[{\"id\": 1}, {\"id\": 2}]\n" :> <<"[","{","\"","i","d","\"",":"," ","1","}",","," ","{","\"","i","d","\"",":"," ","2","}","]","\n">>) @@
  ("[{\"id\": 1}, {\"id\": 2}, {\"id\": 3}]\n" :> <<"[","{","\"","i","d","\"",":"," ","1","}",","," ","{","\"","i","d","\"",":"," ","2","}",","," ","{","\"","i","d","\"",":"," ","3","}","]","\n">>) @@
  ("intx" :> <<"i","n","t","x">>) @@
  ("TEST " :> <<"T","E","S","T"," ">>) @@
  ("TEST" :> <<"T","E","S","T">>) @@
  ("Int" :> <<"I","n","t">>) @@
  ("[[[[..." :> <<"[","[","[","[",".",".",".">>) @@
  ("[[[[...\n" :> <<"[","[","[","[",".",".",".","\n">>) @@
  ("null" :> <<"n","u","l","l">>) @@
  ("null\n" :> <<"n","u","l","l","\n">>) @@
  ("{\"id\": 101, \"_links\": null}" :> <<"{","\"","i","d","\"",":"," ","1","0","1",","," ","\"","_","l","i","n","k","s","\"",":"," ","n","u","l","l","}">>) @@
  ("{\"id\": 101, \"_links\": null}\n" :> <<"{","\"","i","d","\"",":"," ","1","0","1",","," ","\"","_","l","i","n","k","s","\"",":"," ","n","u","l","l","}","\n">>) @@
  ("timed out" :> <<"t","i","m","e","d"," ","o","u","t">>) @@
  ("Service unavailable" :> <<"S","e","r","v","i","c","e"," ","u","n","a","v","a","i","l","a","b","l","e">>) @@
  ("Service unavailable\n" :> <<"S","e","r","v","i","c","e"," ","u","n","a","v","a","i","l","a","b","l","e","\n">>) @@
  ("testing" :> <<"t","e","s","t","i","n","g">>) @@
  (" \t " :> <<" ","\t"," ">>)

\* str.lower() of one character
LowerChar(c) ==
  CASE c = "A" -> "a"
    [] c = "B" -> "b"
    [] c = "C" -> "c"
    [] c = "D" -> "d"
    [] c = "E" -> "e"
    [] c = "F" -> "f"
    [] c = "G" -> "g"
    [] c = "H" -> "h"
    [] c = "I" -> "i"
    [] c = "J" -> "j"
    [] c = "K" -> "k"
    [] c = "L" -> "l"
    [] c = "M" -> "m"
    [] c = "N" -> "n"
    [] c = "O" -> "o"
    [] c = "P" -> "p"
    [] c = "Q" -> "q"
    [] c = "R" -> "r"
    [] c = "S" -> "s"
    [] c = "T" -> "t"
    [] c = "U" -> "u"
    [] c = "V" -> "v"
    [] c = "W" -> "w"
    [] c = "X" -> "x"
    [] c = "Y" -> "y"
    [] c = "Z" -> "z"
    [] OTHER -> c

\* str.lower()
Lower(s) == [i \in 1..Len(s) |-> LowerChar(s[i])]

\* variant: the empty text is contained in no text
IsSubstring_NonEmpty(sub, s) ==
  /\ sub # <<>>
  /\ \E i \in 0..(Len(s) - Len(sub)) : SubSeq(s, i + 1, i + Len(sub)) = sub

\* the Python test  sub in s  on character sequences
IsSubstring(sub, s) ==
  \E i \in 0..(Len(s) - Len(sub)) : SubSeq(s, i + 1, i + Len(sub)) = sub

\* str.strip() on character sequences
StripChars(s) ==
  LET keep == {i \in 1..Len(s) : s[i] \notin {" ", "\n", "\t", "\r"}}
      lo == CHOOSE i \in keep : \A j \in keep : i <= j
      hi == CHOOSE i \in keep : \A j \in keep : j <= i
  IN IF keep = {} THEN <<>> ELSE SubSeq(s, lo, hi)

\* s.strip() for every text: the text spelled by the stripped characters
StripTable ==
  [s \in DOMAIN Chars |-> CHOOSE t \in DOMAIN Chars : Chars[t] = StripChars(Chars[s])]

Strip(s) == StripTable[s]

(***************************************************************************)
(* The external process: what one subprocess.run can do.                   *)
(***************************************************************************)
Exit(rc, stdout, stderr) == [kind |-> "exit", rc |-> rc, stdout |-> stdout, stderr |-> stderr]
TimeoutExpired == [kind |-> "TimeoutExpired", rc |-> -1, stdout |-> "", stderr |-> ""]
OSError == [kind |-> "OSError", rc |-> -1, stdout |-> "", stderr |-> "[Errno 13] Permission denied"]

\* standard outputs the external tool prints, and json.loads of each
OutVersion == "azure-cli 2.60.0\n"
OutAccount == "{\"user\": {\"name\": \"alice\"}}\n"
OutExtension == "{\"name\": \"azure-devops\"}\n"
OutRun == "{\"id\": 101, \"state\": \"inProgress\"}\n"
\* the answers to a runs-list command: a JSON array of run records
OutRuns0 == "[]\n"
OutRuns2 == "[{\"id\": 1}, {\"id\": 2}]\n"
OutRuns3 == "[{\"id\": 1}, {\"id\": 2}, {\"id\": 3}]\n"
\* JSON that is no object, and an object whose _links member is null
OutNull == "null\n"
OutRunNullLinks == "{\"id\": 101, \"_links\": null}\n"
\* an array nested deeper than the recursion limit of the parser (the text
\* stands for it)
OutDeep == "[[[[...\n"
\* bytes that are no text in the encoding subprocess.run(text=True) decodes with
OutBadBytes == "\\xc3("

JsonDecodeError == [t |-> "JSONDecodeError"]
\* json.loads raises RecursionError, which is no JSONDecodeError
JsonRecursionError == [t |-> "RecursionError"]

json_loads(s) ==
  CASE s = OutAccount -> Dict([user |-> Dict([name |-> "alice"])])
    [] s = OutExtension -> Dict([name |-> "azure-devops"])
    [] s = OutRun -> Dict([id |-> 101, state |-> "inProgress"])
    [] s = OutRuns0 -> List(<<>>)
    [] s = OutRuns2 -> List(<<Dict([id |-> 1]), Dict([id |-> 2])>>)
    [] s = OutRuns3 -> List(<<Dict([id |-> 1]), Dict([id |-> 2]), Dict([id |-> 3])>>)
    [] s = OutNull -> None
    [] s = OutRunNullLinks -> Dict([id |-> 101, _links |-> None])
    [] s = OutDeep -> JsonRecursionError
    [] OTHER -> JsonDecodeError

\* answers of a version probe of the locator
ProbeOutcomes == {Exit(0, OutVersion, ""), Exit(1, "", "Pipeline not found\n"), TimeoutExpired}

\* answers of the three verification commands: each prints its own output, or fails
LoginRequired == Exit(1, "", "Please run 'az login' to setup account.\n")
VersionOutcomes == {Exit(0, OutVersion, ""), LoginRequired, TimeoutExpired}
AccountOutcomes == {Exit(0, OutAccount, ""), LoginRequired, TimeoutExpired}
ExtensionOutcomes == {Exit(0, OutExtension, ""), LoginRequired, TimeoutExpired}

(***************************************************************************)
(* find_azure_cli_path: the candidates are probed in order, the first one  *)
(* whose version probe exits 0 is returned.                                *)
(***************************************************************************)
NonePath == "None"
Candidates ==
  << "C:\\Program Files (x86)\\Microsoft SDKs\\Azure\\CLI2\\wbin\\az.cmd",
     "C:\\Program Files\\Microsoft SDKs\\Azure\\CLI2\\wbin\\az.cmd",
     "az.cmd",
     "az" >>

\* variant: a candidate is accepted as soon as its probe exits, with any code
ProbeOk_AnyExit(o) == o.kind = "exit"

\* result.returncode == 0
ProbeOk(o) == o.kind = "exit" /\ o.rc = 0

\* probe[i] is the answer of the i-th version probe that is made
RECURSIVE ProbeFrom(_, _)
ProbeFrom(i, probe) ==
  IF i > Len(Candidates) THEN [path |-> NonePath, probes |-> Len(Candidates)]
  ELSE IF ProbeOk(probe[i]) THEN [path |-> Candidates[i], probes |-> i]
  ELSE ProbeFrom(i + 1, probe)

find_azure_cli_path(probe) == ProbeFrom(1, probe)

\* the answers of the probes one search makes: failures up to the first success
ProbeScripts ==
  UNION {{f \o <<o>> : f \in [1..k -> {p \in ProbeOutcomes : ~ProbeOk(p)}],
                       o \in {p \in ProbeOutcomes : ProbeOk(p)}} : k \in 0..(Len(Candidates) - 1)}
  \cup [1..Len(Candidates) -> {p \in ProbeOutcomes : ~ProbeOk(p)}]

(***************************************************************************)
(* run_az_command(command), with the cached path `path`; `probe` answers   *)
(* the locator if it runs and `proc` is what the command's process does.   *)
(* Returns the result dictionary, the new cached path, the number of       *)
(* version probes made and the process launched (<<>> if none): its        *)
(* argument vector and what it did.                                        *)
(***************************************************************************)
Success(data) == [success |-> TRUE, data |-> data]
Failure(error) == [success |-> FALSE, error |-> error]
FailureCode(error, rc) == [success |-> FALSE, error |-> error, exit_code |-> rc]

\* str(e) of the exception that the handler  except Exception  turns into a
\* failure when subprocess.run could not decode the output
UnicodeDecodeErrorText ==
  "'utf-8' codec can't decode byte 0xc3 in position 0: invalid continuation byte"

\* the part of run_az_command that reads a process that exited with code 0;
\* a RecursionError of json.loads reaches the same handler
ExitZeroResult(stdout) ==
  IF Strip(stdout) = "" THEN Success(Dict(<<>>))
  ELSE IF json_loads(stdout) = JsonDecodeError THEN Success(Dict([output |-> stdout]))
  ELSE IF json_loads(stdout) = JsonRecursionError
    THEN Failure("maximum recursion depth exceeded while decoding a JSON array from a unicode string")
  ELSE Success(json_loads(stdout))

\* variant: a timeout is reported like a process that exited, with a code
ProcessResult_TimeoutWithCode(proc) ==
  IF proc.kind = "TimeoutExpired" THEN FailureCode("Command timed out after 30 seconds", 1)
  ELSE IF proc.kind = "OSError" THEN Failure(proc.stderr)
  ELSE IF proc.stdout = OutBadBytes THEN Failure(UnicodeDecodeErrorText)
  ELSE IF proc.rc = 0 THEN ExitZeroResult(proc.stdout)
  ELSE FailureCode(IF Strip(proc.stderr) # "" THEN Strip(proc.stderr) ELSE Strip(proc.stdout),
                   proc.rc)

ProcessResult(proc) ==
  IF proc.kind = "TimeoutExpired" THEN Failure("Command timed out after 30 seconds")
  ELSE IF proc.kind = "OSError" THEN Failure(proc.stderr)
  ELSE IF proc.stdout = OutBadBytes THEN Failure(UnicodeDecodeErrorText)
  ELSE IF proc.rc = 0 THEN ExitZeroResult(proc.stdout)
  ELSE FailureCode(IF Strip(proc.stderr) # "" THEN Strip(proc.stderr) ELSE Strip(proc.stdout),
                   proc.rc)

\* the part of run_az_command after the path is settled: found is the path
\* in use and the number of probes made for it
Launch(found, command, proc) ==
  IF found.path = NonePath
    THEN [result |-> Failure("Azure CLI not found. Please install Azure CLI from https://docs.microsoft.com/en-us/cli/azure/install-azure-cli"),
          path |-> NonePath, probes |-> found.probes, launched |-> <<>>]
    ELSE [result |-> ProcessResult(proc), path |-> found.path, probes |-> found.probes,
          launched |-> <<[argv |-> IF command[1] = "az"
                                     THEN <<found.path>> \o Tail(command) ELSE command,
                          proc |-> proc]>>]

run_az_command(path, command, probe, proc) ==
  Launch(IF path = NonePath THEN find_azure_cli_path(probe)
         ELSE [path |-> path, probes |-> 0],
         command, proc)

(***************************************************************************)
(* check_azure_cli_auth                                                    *)
(***************************************************************************)
NoTime == <<>>
Time(t) == <<t>>

CmdVersion == <<"az", "--version">>
CmdAccountShow == <<"az", "account", "show">>
CmdExtensionShow == <<"az", "extension", "show", "--name", "azure-devops">>

AuthNoCli ==
  [authenticated |-> FALSE,
   error |-> "Azure CLI not found. Please install Azure CLI first.",
   install_instructions |-> "Visit https://docs.microsoft.com/en-us/cli/azure/install-azure-cli"]

\* variant: the second stage reports the third stage's hint
AuthNoLogin_ExtensionHint ==
  [authenticated |-> FALSE,
   error |-> "Azure DevOps extension not installed.",
   suggestion |-> "Run 'az extension add --name azure-devops' to install the extension"]

AuthNoLogin ==
  [authenticated |-> FALSE,
   error |-> "Not logged into Azure CLI. Please run 'az login' first.",
   suggestion |-> "Run 'az login' to authenticate with Azure"]
AuthNoExtension ==
  [authenticated |-> FALSE,
   error |-> "Azure DevOps extension not installed.",
   suggestion |-> "Run 'az extension add --name azure-devops' to install the extension"]
AuthOk(data) == [authenticated |-> TRUE, account |-> data]

\* variants of the test with a slip: an entry aged exactly the duration still
\* counts; the duration is read as 5 (minutes); only positive results count
CacheValid_Inclusive(cache, ctime, t) ==
  /\ cache # None
  /\ ctime # NoTime
  /\ t - ctime[1] <= AUTH_CACHE_DURATION

CacheValid_Minutes(cache, ctime, t) ==
  /\ cache # None
  /\ ctime # NoTime
  /\ t - ctime[1] < AUTH_CACHE_DURATION \div 60

CacheValid_PositiveOnly(cache, ctime, t) ==
  /\ cache # None
  /\ cache.authenticated
  /\ ctime # NoTime
  /\ t - ctime[1] < AUTH_CACHE_DURATION

\* the test that guards the cached return
CacheValid(cache, ctime, t) ==
  /\ cache # None
  /\ ctime # NoTime
  /\ t - ctime[1] < AUTH_CACHE_DURATION

\* what one call did: its return value, the caches it leaves, the commands it
\* handed to run_az_command, the version probes made and the processes launched
Outcome(ret, path, cache, ctime, runs, probes, launched) ==
  [ret |-> ret, path |-> path, cache |-> cache, time |-> ctime,
   runs |-> runs, probes |-> probes, launched |-> launched]

\* the stages of the verification; r1, r2, r3 are what run_az_command returned
\* for the version, the account and the extension command
AfterExtension(r1, r2, r3, t) ==
  IF ~r3.result.success
    THEN Outcome(AuthNoExtension, r3.path, AuthNoExtension, Time(t),
                 <<CmdVersion, CmdAccountShow, CmdExtensionShow>>,
                 r1.probes + r2.probes + r3.probes,
                 r1.launched \o r2.launched \o r3.launched)
    ELSE Outcome(AuthOk(r3.result.data), r3.path, AuthOk(r3.result.data), Time(t),
                 <<CmdVersion, CmdAccountShow, CmdExtensionShow>>,
                 r1.probes + r2.probes + r3.probes,
                 r1.launched \o r2.launched \o r3.launched)

AfterAccount(r1, r2, t, probe, procs) ==
  IF ~r2.result.success
    THEN Outcome(AuthNoLogin, r2.path, AuthNoLogin, Time(t),
                 <<CmdVersion, CmdAccountShow>>, r1.probes + r2.probes,
                 r1.launched \o r2.launched)
    ELSE AfterExtension(r1, r2, run_az_command(r2.path, CmdExtensionShow, probe, procs[3]), t)

AfterVersion(r1, t, probe, procs) ==
  IF ~r1.result.success
    THEN Outcome(AuthNoCli, r1.path, AuthNoCli, Time(t),
                 <<CmdVersion>>, r1.probes, r1.launched)
    ELSE AfterAccount(r1, run_az_command(r1.path, CmdAccountShow, probe, procs[2]),
                      t, probe, procs)

check_azure_cli_auth(path, cache, ctime, t, probe, procs) ==
  IF CacheValid(cache, ctime, t)
    THEN Outcome(cache, path, cache, ctime, <<>>, 0, <<>>)
    ELSE AfterVersion(run_az_command(path, CmdVersion, probe, procs[1]), t, probe, procs)

(***************************************************************************)
(* The answers the external tool can give during one verification: the     *)
(* locator's probes (only when no path is cached) and one process per      *)
(* stage reached.                                                          *)
(***************************************************************************)
Succeeds(proc) == ProcessResult(proc).success

StageScripts ==
  {<<a>> : a \in {o \in VersionOutcomes : ~Succeeds(o)}}
  \cup {<<a, b>> : a \in {o \in VersionOutcomes : Succeeds(o)},
                   b \in {o \in AccountOutcomes : ~Succeeds(o)}}
  \cup {<<a, b, c>> : a \in {o \in VersionOutcomes : Succeeds(o)},
                      b \in {o \in AccountOutcomes : Succeeds(o)},
                      c \in ExtensionOutcomes}

NoProbe == <<>>

Env(probe, procs) == [probe |-> probe, procs |-> procs]

\* ... when the locator runs first and its probes are answered by one of `probes`
Locating(probes) ==
  {Env(p, <<>>) : p \in {q \in probes : find_azure_cli_path(q).path = NonePath}}
  \cup {Env(p, s) : p \in {q \in probes : find_azure_cli_path(q).path # NonePath},
                    s \in StageScripts}

\* every way the search can go
AnyInstall == Locating(ProbeScripts)

\* the tool is installed at the first candidate, or nowhere
PrimaryInstall ==
  Locating({<<Exit(0, OutVersion, "")>>, [i \in 1..Len(Candidates) |-> TimeoutExpired]})

\* answers for the stage commands: with a cached path no probe is answered
StageEnvs(path, locating) ==
  IF path # NonePath THEN {Env(NoProbe, s) : s \in StageScripts} ELSE locating

AuthEnvs(path, cache, ctime, t, locating) ==
  IF CacheValid(cache, ctime, t) THEN {Env(NoProbe, <<>>)} ELSE StageEnvs(path, locating)

(***************************************************************************)
(* check_azure_cli_status: the status tool. It runs the three commands     *)
(* itself and reads or writes neither cache variable.                      *)
(***************************************************************************)
StatusReport(installed, authenticated, extension, account, recs) ==
  [azure_cli_installed |-> installed, authenticated |-> authenticated,
   devops_extension_installed |-> extension, account_info |-> account,
   recommendations |-> recs]

StatusOutcome(ret, path, runs, probes, launched) ==
  [ret |-> ret, path |-> path, runs |-> runs, probes |-> probes, launched |-> launched]

\* the recommendations, without the symbol each starts with; a formatted text
\* is the tuple of its parts
RecInstalled == <<"Azure CLI is installed">>
RecAuthenticated(data) ==
  <<"Authenticated as ", GetOr(GetOr(data, "user", Dict(<<>>)), "name", "unknown")>>

\* the stages of the status report; r1, r2, r3 as in the verification
StatusAfterExtension(r1, r2, r3) ==
  IF ~r3.result.success
    THEN StatusOutcome(StatusReport(TRUE, TRUE, FALSE, r2.result.data,
                                    <<RecInstalled, RecAuthenticated(r2.result.data),
                                      <<"Azure DevOps extension not installed - run 'az extension add --name azure-devops'">>
                                    >>),
                       r3.path, <<CmdVersion, CmdAccountShow, CmdExtensionShow>>,
                       r1.probes + r2.probes + r3.probes,
                       r1.launched \o r2.launched \o r3.launched)
    ELSE StatusOutcome(StatusReport(TRUE, TRUE, TRUE, r2.result.data,
                                    <<RecInstalled, RecAuthenticated(r2.result.data),
                                      <<"Azure DevOps extension is installed">>,
                                      <<"Azure CLI is ready for Azure DevOps pipeline operations!">>
                                    >>)
                         @@ [overall_status |-> "ready"],
                       r3.path, <<CmdVersion, CmdAccountShow, CmdExtensionShow>>,
                       r1.probes + r2.probes + r3.probes,
                       r1.launched \o r2.launched \o r3.launched)

StatusAfterAccount(r1, r2, probe, procs) ==
  IF ~r2.result.success
    THEN StatusOutcome(StatusReport(TRUE, FALSE, FALSE, None,
                                    <<RecInstalled,
                                      <<"Not authenticated - run 'az login' to authenticate">>
                                    >>),
                       r2.path, <<CmdVersion, CmdAccountShow>>,
                       r1.probes + r2.probes, r1.launched \o r2.launched)
    ELSE StatusAfterExtension(r1, r2,
                              run_az_command(r2.path, CmdExtensionShow, probe, procs[3]))

StatusAfterVersion(r1, probe, procs) ==
  IF ~r1.result.success
    THEN StatusOutcome(StatusReport(FALSE, FALSE, FALSE, None,
                                    << <<"Azure CLI not found - install from https://docs.microsoft.com/en-us/cli/azure/install-azure-cli">> >>),
                       r1.path, <<CmdVersion>>, r1.probes, r1.launched)
    ELSE StatusAfterAccount(r1, run_az_command(r1.path, CmdAccountShow, probe, procs[2]),
                            probe, procs)

check_azure_cli_status(path, probe, procs) ==
  StatusAfterVersion(run_az_command(path, CmdVersion, probe, procs[1]), probe, procs)

(***************************************************************************)
(* The pipeline catalog loaded from config.yaml (load_config), in file     *)
(* order.  The third entry has no branch.                                  *)
(***************************************************************************)
NoneStr == "None"

pipelines ==
  << [name |-> "integration-main", organization |-> "contoso", project |-> "web",
      pipelineID |-> 42, branch |-> "main",
      variables |-> <<[name |-> "env", value |-> "test"]>>],
     [name |-> "integration-test", organization |-> "contoso", project |-> "web",
      pipelineID |-> 43, branch |-> "develop"],
     [name |-> "deploy-prod", organization |-> "contoso", project |-> "ops",
      pipelineID |-> 7] >>

\* variant: only the first key is listed
PipelineNames_FirstOnly == <<pipelines[1].name>>

\* list(pipelines.keys())
PipelineNames == [i \in 1..Len(pipelines) |-> pipelines[i].name]

\* pipelines.get(name)
PipelinesGet(name) ==
  IF \E i \in 1..Len(pipelines) : pipelines[i].name = name
    THEN pipelines[CHOOSE i \in 1..Len(pipelines) : pipelines[i].name = name]
    ELSE None

\* variant: the configured branch is not read
BranchOf_Develop(p) == "develop"

\* p.get("branch")
BranchOf(p) == IF "branch" \in DOMAIN p THEN p.branch ELSE NoneStr

\* the truth value of an optional string
Truthy(s) == s # NoneStr /\ s # ""

\* f"https://dev.azure.com/{organization}", str(pipelineID), f"{name}={value}"
OrgUrl(org) ==
  CASE org = "contoso" -> "https://dev.azure.com/contoso"

IdStr(id) ==
  CASE id = 42 -> "42"
    [] id = 43 -> "43"
    [] id = 7 -> "7"

RECURSIVE VariableArgs(_)
VariableArgs(variables) ==
  IF variables = <<>> THEN <<>>
  ELSE <<"--variables",
         CASE Head(variables).name = "env" /\ Head(variables).value = "test" -> "env=test">>
       \o VariableArgs(Tail(variables))

TriggerCommand(p, target_branch) ==
  << "az", "pipelines", "run",
     "--organization", OrgUrl(p.organization),
     "--project", p.project,
     "--id", IdStr(p.pipelineID),
     "--branch", target_branch,
     "--output", "json" >>
  \o (IF "variables" \in DOMAIN p /\ p.variables # <<>>
        THEN VariableArgs(p.variables) ELSE <<>>)

(***************************************************************************)
(* bb7_trigger_bulk of server.py                                           *)
(***************************************************************************)
\* answers of a trigger command: the run created, or a failure
RunOutcomes ==
  { Exit(0, OutRun, ""),
    Exit(1, "", "Unauthorized: token expired\n"),
    Exit(1, "", "Please run 'az login' to setup account.\n") }

\* variant: the test without lower()
IsAuthenticationError_CaseSensitive(error) ==
  \/ IsSubstring(Chars["authentication"], Chars[error])
  \/ IsSubstring(Chars["unauthorized"], Chars[error])

\* the test that ends the loop after a failed attempt
IsAuthenticationError(error) ==
  \/ IsSubstring(Chars["authentication"], Lower(Chars[error]))
  \/ IsSubstring(Chars["unauthorized"], Lower(Chars[error]))

\* the texts on which the test holds
AuthenticationErrors == {error \in DOMAIN Chars : IsAuthenticationError(error)}

RunSucceeded(i, name, target_branch, run_data) ==
  [success |-> TRUE, run_number |-> i + 1, pipeline_name |-> name,
   branch_used |-> target_branch,
   run_id |-> Get(run_data, "id"), run_name |-> Get(run_data, "name"),
   state |-> Get(run_data, "state"), created_date |-> Get(run_data, "createdDate"),
   url |-> Get(run_data, "url"),
   web_url |-> Get(GetOr(GetOr(run_data, "_links", Dict(<<>>)), "web", Dict(<<>>)), "href")]

\* variant: the failed attempts are numbered from 0
RunFailed_FromZero(i, name, error) ==
  [success |-> FALSE, run_number |-> i, pipeline_name |-> name, error |-> error]

RunFailed(i, name, error) ==
  [success |-> FALSE, run_number |-> i + 1, pipeline_name |-> name, error |-> error]

\* building the entry of a successful attempt raises AttributeError: run_data,
\* its member _links or the member web of that has no method get
EntryRaises(run_data) ==
  \/ ~IsDict(run_data)
  \/ ~IsDict(GetOr(run_data, "_links", Dict(<<>>)))
  \/ ~IsDict(GetOr(GetOr(run_data, "_links", Dict(<<>>)), "web", Dict(<<>>)))

\* what the iterations so far left, and the exception that ended the loop
LoopState(results, path, runs, probes, launched, raised) ==
  [results |-> results, path |-> path, runs |-> runs, probes |-> probes,
   launched |-> launched, raised |-> raised]

\* the loop  for i in range(count)  from iteration i on; acc is what the
\* iterations before i left: the results, the cached path, the commands run.
\* Each attempt's process answers with one of `answers`: the value is the set
\* of the ways the loop can end.
RECURSIVE TriggerLoop(_, _, _, _, _, _, _)

\* variant: an attempt that failed for another reason than authentication is
\* made once more before the loop goes on
AfterAttempt_Retry(i, count, name, p, target_branch, answers, acc, r) ==
  IF r.result.success /\ EntryRaises(r.result.data)
    THEN {LoopState(acc.results, r.path, Append(acc.runs, TriggerCommand(p, target_branch)),
                    acc.probes + r.probes, acc.launched \o r.launched, "AttributeError")}
  ELSE IF r.result.success
    THEN TriggerLoop(i + 1, count, name, p, target_branch, answers,
                     LoopState(Append(acc.results,
                                      RunSucceeded(i, name, target_branch, r.result.data)),
                               r.path, Append(acc.runs, TriggerCommand(p, target_branch)),
                               acc.probes + r.probes, acc.launched \o r.launched,
                               NoException))
  ELSE IF r.result.error \in AuthenticationErrors
    THEN {LoopState(Append(acc.results, RunFailed(i, name, r.result.error)), r.path,
                    Append(acc.runs, TriggerCommand(p, target_branch)),
                    acc.probes + r.probes, acc.launched \o r.launched, NoException)}
  ELSE TriggerLoop(i + 1, count, name, p, target_branch, answers,
                   LoopState(Append(acc.results, RunFailed(i, name, r.result.error)), r.path,
                             acc.runs \o <<TriggerCommand(p, target_branch),
                                           TriggerCommand(p, target_branch)>>,
                             acc.probes + r.probes,
                             acc.launched \o r.launched \o r.launched, NoException))

\* iteration i once its command has returned r
AfterAttempt(i, count, name, p, target_branch, answers, acc, r) ==
  LET entry == IF r.result.success
                 THEN RunSucceeded(i, name, target_branch, r.result.data)
                 ELSE RunFailed(i, name, r.result.error)
  IN IF r.result.success /\ EntryRaises(r.result.data)
       THEN {LoopState(acc.results, r.path,
                       Append(acc.runs, TriggerCommand(p, target_branch)),
                       acc.probes + r.probes, acc.launched \o r.launched,
                       "AttributeError")}
     ELSE IF ~r.result.success /\ r.result.error \in AuthenticationErrors
       THEN {LoopState(Append(acc.results, entry), r.path,
                       Append(acc.runs, TriggerCommand(p, target_branch)),
                       acc.probes + r.probes, acc.launched \o r.launched, NoException)}
       ELSE TriggerLoop(i + 1, count, name, p, target_branch, answers,
                        LoopState(Append(acc.results, entry), r.path,
                                  Append(acc.runs, TriggerCommand(p, target_branch)),
                                  acc.probes + r.probes, acc.launched \o r.launched,
                                  NoException))

TriggerLoop(i, count, name, p, target_branch, answers, acc) ==
  IF i >= count THEN {acc}
  ELSE UNION {AfterAttempt(i, count, name, p, target_branch, answers, acc,
                           run_az_command(acc.path, TriggerCommand(p, target_branch),
                                          <<>>, proc))
              : proc \in answers}

\* what a tool call did: Outcome, what it handed to dump_response, and the
\* exception that left the tool instead of a return value
ToolOutcome(ret, auth, runs, probes, launched, dumped) ==
  [ret |-> ret, path |-> auth.path, cache |-> auth.cache, time |-> auth.time,
   runs |-> runs, probes |-> probes, launched |-> launched, dumped |-> dumped,
   raised |-> NoException]

\* the state a call starts in, as an Outcome that did nothing
Untouched(path, cache, ctime) == Outcome(None, path, cache, ctime, <<>>, 0, <<>>)

\* dump_response: the file is written, or creating the directory or the file
\* raises OSError
DumpOutcomes == {"written", "OSError"}

\* the end of bb7_trigger_bulk once the loop is left: an exception raised in
\* the loop leaves the tool; otherwise the results are handed to
\* dump_response and then returned, unless dump_response raises
\* variant: a batch that stops on an authentication error drops the cached status
TriggerEnd_AbortInvalidates(auth_check, loop, sink) ==
  [ToolOutcome(IF sink = "written" THEN loop.results ELSE <<>>,
               IF /\ loop.results # <<>>
                  /\ ~loop.results[Len(loop.results)].success
                  /\ loop.results[Len(loop.results)].error \in AuthenticationErrors
                 THEN [auth_check EXCEPT !.path = loop.path, !.cache = None,
                                         !.time = NoTime]
                 ELSE [auth_check EXCEPT !.path = loop.path],
               auth_check.runs \o loop.runs, auth_check.probes + loop.probes,
               auth_check.launched \o loop.launched,
               IF loop.raised # NoException THEN <<>>
               ELSE <<[prefix |-> "trigger_bulk", data |-> loop.results]>>)
   EXCEPT !.raised = IF loop.raised # NoException THEN loop.raised
                     ELSE IF sink = "written" THEN NoException ELSE sink]

TriggerEnd(auth_check, loop, sink) ==
  IF loop.raised # NoException
    THEN [ToolOutcome(<<>>, [auth_check EXCEPT !.path = loop.path],
                      auth_check.runs \o loop.runs, auth_check.probes + loop.probes,
                      auth_check.launched \o loop.launched, <<>>)
          EXCEPT !.raised = loop.raised]
    ELSE [ToolOutcome(IF sink = "written" THEN loop.results ELSE <<>>,
                      [auth_check EXCEPT !.path = loop.path],
                      auth_check.runs \o loop.runs, auth_check.probes + loop.probes,
                      auth_check.launched \o loop.launched,
                      <<[prefix |-> "trigger_bulk", data |-> loop.results]>>)
          EXCEPT !.raised = IF sink = "written" THEN NoException ELSE sink]

\* the ways one call can go when the verification is answered by env and
\* each trigger attempt by one of `answers`
\* variant: only a missing tool ends the call, any other failed check is
\* passed over
TriggerAfterAuth_OnlyMissingCli(name, count, p, target_branch, answers, sinks, auth_check) ==
  IF ~auth_check.ret.authenticated /\ auth_check.ret = AuthNoCli
    THEN {ToolOutcome(<<auth_check.ret>>, auth_check, auth_check.runs,
                      auth_check.probes, auth_check.launched, <<>>)}
    ELSE {TriggerEnd(auth_check, loop, sink)
          : loop \in TriggerLoop(0, count, name, p, target_branch, answers,
                                 LoopState(<<>>, auth_check.path, <<>>, 0, <<>>,
                                           NoException)),
            sink \in sinks}

\* the tool from the auth check on
TriggerAfterAuth(name, count, p, target_branch, answers, sinks, auth_check) ==
  IF ~auth_check.ret.authenticated
    THEN {ToolOutcome(<<auth_check.ret>>, auth_check, auth_check.runs,
                      auth_check.probes, auth_check.launched, <<>>)}
    ELSE {TriggerEnd(auth_check, loop, sink)
          : loop \in TriggerLoop(0, count, name, p, target_branch, answers,
                                 LoopState(<<>>, auth_check.path, <<>>, 0, <<>>,
                                           NoException)),
            sink \in sinks}

\* variant: a call for no runs returns the empty batch before the auth check
TriggerOnBranch_NoCheckForNoRuns(name, count, p, target_branch, path, cache, ctime, t, env, answers, sinks) ==
  IF ~Truthy(target_branch)
    THEN {ToolOutcome(<<[error |-> <<"Pipeline '", name,
                                     "' missing 'branch' in config.yaml and no branch specified">>,
                         pipeline_config |-> p]>>,
                      Untouched(path, cache, ctime), <<>>, 0, <<>>, <<>>)}
  ELSE IF count <= 0
    THEN {ToolOutcome(<<>>, Untouched(path, cache, ctime), <<>>, 0, <<>>,
                      <<[prefix |-> "trigger_bulk", data |-> <<>>]>>)}
    ELSE TriggerAfterAuth(name, count, p, target_branch, answers, sinks,
                          check_azure_cli_auth(path, cache, ctime, t, env.probe, env.procs))

\* the tool from the branch selection on
TriggerOnBranch(name, count, p, target_branch, path, cache, ctime, t, env, answers, sinks) ==
  IF ~Truthy(target_branch)
    THEN {ToolOutcome(<<[error |-> <<"Pipeline '", name,
                                     "' missing 'branch' in config.yaml and no branch specified">>,
                         pipeline_config |-> p]>>,
                      Untouched(path, cache, ctime), <<>>, 0, <<>>, <<>>)}
    ELSE TriggerAfterAuth(name, count, p, target_branch, answers, sinks,
                          check_azure_cli_auth(path, cache, ctime, t, env.probe, env.procs))

bb7_trigger_bulk(name, count, branch, p, path, cache, ctime, t, env, answers, sinks) ==
  IF p = None
    THEN {ToolOutcome(<<[error |-> <<"Pipeline '", name, "' not found in config.yaml">>,
                         available_pipelines |-> PipelineNames]>>,
                      Untouched(path, cache, ctime), <<>>, 0, <<>>, <<>>)}
    ELSE TriggerOnBranch(name, count, p, IF Truthy(branch) THEN branch ELSE BranchOf(p),
                         path, cache, ctime, t, env, answers, sinks)

(***************************************************************************)
(* bb7_list_runs of server.py                                              *)
(***************************************************************************)
ListCommand(p, top) ==
  << "az", "pipelines", "runs", "list",
     "--organization", OrgUrl(p.organization),
     "--project", p.project,
     "--pipeline-ids", IdStr(p.pipelineID),
     "--top", (CASE top = 0 -> "0" [] top = 2 -> "2" [] top = 5 -> "5"),
     "--output", "json" >>

\* answers of a runs-list command: no, two or three run records, one object
\* that is no array, or a failure
ListOutcomes ==
  { Exit(0, OutRuns0, ""), Exit(0, OutRuns2, ""), Exit(0, OutRuns3, ""),
    Exit(0, OutRun, ""), Exit(1, "", "Pipeline not found\n") }

\* len(data) if isinstance(data, list) else 0
CountOf(data) == IF IsList(data) THEN Len(data.v) ELSE 0

\* the tool once its command has returned r
\* variant: a list command that failed is issued a second time
ListAfterRun_Retry(name, command, auth_check, r, sink) ==
  IF r.result.success
    THEN [ToolOutcome(IF sink = "written"
                        THEN [success |-> TRUE, pipeline_name |-> name,
                              runs |-> r.result.data, count |-> CountOf(r.result.data)]
                        ELSE None,
                      [auth_check EXCEPT !.path = r.path],
                      Append(auth_check.runs, command), auth_check.probes + r.probes,
                      auth_check.launched \o r.launched,
                      <<[prefix |-> "list_runs", data |-> r.result.data]>>)
          EXCEPT !.raised = IF sink = "written" THEN NoException ELSE sink]
    ELSE ToolOutcome([error |-> <<"Failed to list pipeline runs: ", r.result.error>>,
                      pipeline_name |-> name,
                      suggestion |-> "Check if you have access to the specified Azure DevOps organization and project"],
                     [auth_check EXCEPT !.path = r.path],
                     auth_check.runs \o <<command, command>>, auth_check.probes + r.probes,
                     auth_check.launched \o r.launched \o r.launched, <<>>)

ListAfterRun(name, command, auth_check, r, sink) ==
  IF r.result.success
    THEN [ToolOutcome(IF sink = "written"
                        THEN [success |-> TRUE, pipeline_name |-> name,
                              runs |-> r.result.data, count |-> CountOf(r.result.data)]
                        ELSE None,
                      [auth_check EXCEPT !.path = r.path],
                      Append(auth_check.runs, command), auth_check.probes + r.probes,
                      auth_check.launched \o r.launched,
                      <<[prefix |-> "list_runs", data |-> r.result.data]>>)
          EXCEPT !.raised = IF sink = "written" THEN NoException ELSE sink]
    ELSE ToolOutcome([error |-> <<"Failed to list pipeline runs: ", r.result.error>>,
                      pipeline_name |-> name,
                      suggestion |-> "Check if you have access to the specified Azure DevOps organization and project"],
                     [auth_check EXCEPT !.path = r.path],
                     Append(auth_check.runs, command), auth_check.probes + r.probes,
                     auth_check.launched \o r.launched, <<>>)

\* the tool from the auth check on
ListAfterAuth(name, top, p, answers, sinks, auth_check) ==
  IF ~auth_check.ret.authenticated
    THEN {ToolOutcome(auth_check.ret, auth_check, auth_check.runs,
                      auth_check.probes, auth_check.launched, <<>>)}
    ELSE {ListAfterRun(name, ListCommand(p, top), auth_check,
                       run_az_command(auth_check.path, ListCommand(p, top), <<>>, proc),
                       sink)
          : proc \in answers, sink \in sinks}

bb7_list_runs(name, top, p, path, cache, ctime, t, env, answers, sinks) ==
  IF p = None
    THEN {ToolOutcome([error |-> <<"Pipeline '", name, "' not found in config.yaml">>,
                       available_pipelines |-> PipelineNames],
                      Untouched(path, cache, ctime), <<>>, 0, <<>>, <<>>)}
    ELSE ListAfterAuth(name, top, p, answers, sinks,
                       check_azure_cli_auth(path, cache, ctime, t, env.probe, env.procs))

(***************************************************************************)
(* server_simple.py: the server without auth check.  It resolves the name  *)
(* with find_pipeline and runs every command with run_az_direct.           *)
(***************************************************************************)
\* config.yaml as a call of server_simple.py finds it: unreadable, with the
\* three entries, or with the first two only
ConfigFiles ==
  { [readable |-> FALSE, pipelines |-> <<>>],
    [readable |-> TRUE, pipelines |-> pipelines],
    [readable |-> TRUE, pipelines |-> SubSeq(pipelines, 1, 2)] }

\* load_pipelines: the catalog, or {} when config.yaml cannot be read
load_pipelines(config) == IF config.readable THEN config.pipelines ELSE <<>>

\* variant: the names but the last
get_pipeline_names_ButLast(config) ==
  [i \in 1..(Len(load_pipelines(config)) - 1) |-> load_pipelines(config)[i].name]

\* get_pipeline_names
get_pipeline_names(config) ==
  [i \in 1..Len(load_pipelines(config)) |-> load_pipelines(config)[i].name]

\* variant: the table without its first row
patterns_WithoutInt ==
  << <<"deploy", "deploy">>, <<"test", "test">>, <<"build", "build">> >>

\* the table of abbreviations: a query that starts with the first text names
\* a pipeline whose name contains the second
patterns ==
  << <<"int", "integration">>, <<"deploy", "deploy">>, <<"test", "test">>,
     <<"build", "build">> >>

\* variant: the last of the entries at the positions hits
FirstEntry_Last(catalog, hits) ==
  IF hits = {} THEN None ELSE catalog[CHOOSE i \in hits : \A j \in hits : j <= i]

\* the first of the entries at the positions hits, in the order of the catalog
FirstEntry(catalog, hits) ==
  IF hits = {} THEN None ELSE catalog[CHOOSE i \in hits : \A j \in hits : i <= j]

\* the positions of the entries whose name contains the text
Containing(text, catalog) ==
  {i \in 1..Len(catalog) : IsSubstring(text, Lower(Chars[catalog[i].name]))}

\* variant: an abbreviation that applies yields the head of the catalog
PatternMatch_HeadOfCatalog(k, query_lower, catalog) ==
  IF \E j \in k..Len(patterns) :
       /\ Len(Chars[patterns[j][1]]) <= Len(query_lower)
       /\ SubSeq(query_lower, 1, Len(Chars[patterns[j][1]])) = Chars[patterns[j][1]]
       /\ Containing(Chars[patterns[j][2]], catalog) # {}
    THEN catalog[1]
    ELSE None

\* the third tier of find_pipeline, from the k-th abbreviation on: the query
\* starts with the abbreviation and a name contains what it stands for
RECURSIVE PatternMatch(_, _, _)
PatternMatch(k, query_lower, catalog) ==
  IF k > Len(patterns) THEN None
  ELSE IF Len(Chars[patterns[k][1]]) <= Len(query_lower)
            /\ SubSeq(query_lower, 1, Len(Chars[patterns[k][1]])) = Chars[patterns[k][1]]
            /\ Containing(Chars[patterns[k][2]], catalog) # {}
    THEN FirstEntry(catalog, Containing(Chars[patterns[k][2]], catalog))
    ELSE PatternMatch(k + 1, query_lower, catalog)

\* the positions of the entries with the same name as the query
Exact(query_lower, catalog) ==
  {i \in 1..Len(catalog) : Lower(Chars[catalog[i].name]) = query_lower}

\* variant: the substring tier is tried before the exact tier
FindLowered_SubstringFirst(query_lower, catalog) ==
  IF Containing(query_lower, catalog) # {}
    THEN FirstEntry(catalog, Containing(query_lower, catalog))
  ELSE IF Exact(query_lower, catalog) # {} THEN FirstEntry(catalog, Exact(query_lower, catalog))
  ELSE PatternMatch(1, query_lower, catalog)

\* find_pipeline once the query is lowered and stripped
FindLowered(query_lower, catalog) ==
  IF Exact(query_lower, catalog) # {} THEN FirstEntry(catalog, Exact(query_lower, catalog))
  ELSE IF Containing(query_lower, catalog) # {}
    THEN FirstEntry(catalog, Containing(query_lower, catalog))
  ELSE PatternMatch(1, query_lower, catalog)

find_pipeline(query, catalog) == FindLowered(StripChars(Lower(Chars[query])), catalog)

\* the tier of find_pipeline whose return statement is reached: 1 the exact
\* tier, 2 the substring tier, 3 the abbreviations, 0 the final return None
find_pipeline_tier(query, catalog) ==
  LET query_lower == StripChars(Lower(Chars[query]))
  IN IF Exact(query_lower, catalog) # {} THEN 1
     ELSE IF Containing(query_lower, catalog) # {} THEN 2
     ELSE IF PatternMatch(1, query_lower, catalog) # None THEN 3
     ELSE 0


\* the error texts that contain one of the terms for which run_az_direct
\* suggests to log in
KeywordErrors ==
  {error \in DOMAIN Chars :
     \E keyword \in {"login", "authenticate", "credential", "unauthorized"} :
       IsSubstring(Chars[keyword], Lower(Chars[error]))}

\* run_az_direct: installed says whether az.cmd exists at its usual place
run_az_direct(command, installed, proc) ==
  LET az_path == IF installed THEN Candidates[1] ELSE "az"
      argv == IF command[1] = "az" THEN <<az_path>> \o Tail(command) ELSE command
      error == IF Strip(proc.stderr) # "" THEN Strip(proc.stderr) ELSE Strip(proc.stdout)
      result ==
        IF proc.kind = "TimeoutExpired" THEN Failure("Command timed out")
        ELSE IF proc.kind = "OSError" THEN Failure(proc.stderr)
        ELSE IF proc.stdout = OutBadBytes THEN Failure(UnicodeDecodeErrorText)
        ELSE IF proc.rc = 0 THEN ExitZeroResult(proc.stdout)
        ELSE IF error \in KeywordErrors
          THEN [success |-> FALSE, error |-> error,
                suggestion |-> "Run 'az login' and 'az extension add --name azure-devops' if needed"]
        ELSE Failure(error)
  IN [result |-> result, launched |-> <<[argv |-> argv, proc |-> proc]>>]

\* the trigger command of server_simple.py: no variables
SimpleTriggerCommand(p, target_branch) ==
  << "az", "pipelines", "run",
     "--organization", OrgUrl(p.organization),
     "--project", p.project,
     "--id", IdStr(p.pipelineID),
     "--branch", target_branch,
     "--output", "json" >>

\* answers of a trigger command to server_simple.py
SimpleRunOutcomes ==
  { Exit(0, OutRun, ""),
    Exit(1, "", "Unauthorized: token expired\n"),
    Exit(1, "", "ERROR: AUTHENTICATION failed\n") }

\* the loop of server_simple.py from iteration i on; the value is the set of
\* the ways it can end
RECURSIVE SimpleTriggerLoop(_, _, _, _, _, _, _, _)

\* result.get("suggestion")
Suggestion(result) ==
  IF "suggestion" \in DOMAIN result THEN result.suggestion ELSE NoneStr

\* iteration i once its command has returned r
SimpleAfterAttempt(i, count, name, p, target_branch, installed, answers, acc, r) ==
  LET entry == IF r.result.success
                 THEN [success |-> TRUE, run_number |-> i + 1, pipeline_name |-> name,
                       branch |-> target_branch, run_id |-> Get(r.result.data, "id"),
                       url |-> Get(r.result.data, "url")]
                 ELSE [success |-> FALSE, run_number |-> i + 1,
                       error |-> r.result.error, suggestion |-> Suggestion(r.result)]
  IN IF r.result.success /\ ~IsDict(r.result.data)
       THEN {[results |-> acc.results,
              runs |-> Append(acc.runs, SimpleTriggerCommand(p, target_branch)),
              launched |-> acc.launched \o r.launched, raised |-> "AttributeError"]}
     ELSE IF ~r.result.success /\ Truthy(Suggestion(r.result))
       THEN {[results |-> Append(acc.results, entry),
              runs |-> Append(acc.runs, SimpleTriggerCommand(p, target_branch)),
              launched |-> acc.launched \o r.launched, raised |-> NoException]}
       ELSE SimpleTriggerLoop(i + 1, count, name, p, target_branch, installed, answers,
                              [results |-> Append(acc.results, entry),
                               runs |-> Append(acc.runs, SimpleTriggerCommand(p, target_branch)),
                               launched |-> acc.launched \o r.launched,
                               raised |-> NoException])

SimpleTriggerLoop(i, count, name, p, target_branch, installed, answers, acc) ==
  IF i >= count THEN {acc}
  ELSE UNION {SimpleAfterAttempt(i, count, name, p, target_branch, installed, answers, acc,
                                 run_az_direct(SimpleTriggerCommand(p, target_branch),
                                               installed, proc))
              : proc \in answers}

\* the names the trigger tool of server_simple.py is called with, and what
\* find_pipeline makes of each
SimpleTriggerNames == {"Deploy-Prod", " Int ", "nomatch"}

Resolution ==
  [config \in ConfigFiles |->
     [name \in SimpleTriggerNames |-> find_pipeline(name, load_pipelines(config))]]

\* bb7_trigger_bulk of server_simple.py; pipeline is find_pipeline(name, pipelines)
simple_bb7_trigger_bulk(name, count, branch, config, pipeline, installed, answers) ==
  IF load_pipelines(config) = <<>>
    THEN {[results |-> <<[error |-> <<"No pipelines configured">>]>>,
           runs |-> <<>>, launched |-> <<>>, raised |-> NoException]}
  ELSE IF pipeline = None
    THEN {[results |-> <<[error |-> <<"Pipeline '", name, "' not found">>,
                          available |-> get_pipeline_names(config)]>>,
           runs |-> <<>>, launched |-> <<>>, raised |-> NoException]}
  ELSE SimpleTriggerLoop(0, count, name, pipeline,
                         IF Truthy(branch) THEN branch
                         ELSE IF "branch" \in DOMAIN pipeline THEN pipeline.branch
                         ELSE "main",
                         installed, answers,
                         [results |-> <<>>, runs |-> <<>>, launched |-> <<>>,
                          raised |-> NoException])

\* bb7_list_runs of server_simple.py
simple_bb7_list_runs(name, top, config, pipeline, installed, answers) ==
  IF pipeline = None
    THEN {[ret |-> [error |-> <<"Pipeline '", name, "' not found">>,
                    available |-> get_pipeline_names(config)],
           runs |-> <<>>, launched |-> <<>>]}
    ELSE {[ret |-> IF r.result.success
                     THEN [success |-> TRUE, pipeline |-> name, runs |-> r.result.data,
                           count |-> CountOf(r.result.data)]
                     ELSE [success |-> FALSE, error |-> r.result.error,
                           suggestion |-> Suggestion(r.result)],
           runs |-> <<ListCommand(pipeline, top)>>, launched |-> r.launched]
          : r \in {run_az_direct(ListCommand(pipeline, top), installed, proc)
                   : proc \in answers}}

(***************************************************************************)
(* The tool calls.  Each is one atomic step and files its record in last.  *)
(***************************************************************************)
\* seq numbers the calls, at is the time of the call, before the auth cache as
\* the call found it, and prev the call before with the cache as that found it
\* and whether it was a batch that ended on an authentication error
Call(op, args, ret, runs, probes, launched, dumped) ==
  [seq |-> last.seq + 1,
   prev |-> [op |-> last.op, at |-> last.at, before |-> last.before,
             stopped |-> /\ last.op = "bb7_trigger_bulk" /\ last.raised = NoException
                         /\ Len(last.ret) > 0
                         /\ "run_number" \in DOMAIN last.ret[Len(last.ret)]
                         /\ ~last.ret[Len(last.ret)].success
                         /\ last.ret[Len(last.ret)].error \in AuthenticationErrors],
   at |-> now, op |-> op, args |-> args,
   before |-> [cache |-> auth_status_cache, time |-> auth_cache_time],
   ret |-> ret, runs |-> runs, probes |-> probes, launched |-> launched,
   dumped |-> dumped, raised |-> NoException]

\* the threads that may be inside check_azure_cli_auth() at the same time
Callers == {1, 2}

Init ==
  /\ callers = [c \in Callers |->
                  [pc |-> "idle", current_time |-> NoTime, auth_result |-> None, ret |-> None]]
  /\ call = [pc |-> "idle", args |-> <<>>, target_branch |-> NoneStr, i |-> 0,
             auth_check |-> Untouched(NonePath, None, NoTime),
             loop |-> LoopState(<<>>, NonePath, <<>>, 0, <<>>, NoException),
             ret |-> <<>>]
  /\ now = 0
  /\ azure_cli_path = NonePath
  /\ auth_status_cache = None
  /\ auth_cache_time = NoTime
  /\ last = [seq |-> 0, prev |-> None, at |-> 0, op |-> "start", args |-> <<>>,
             before |-> [cache |-> None, time |-> NoTime], ret |-> None,
             runs |-> <<>>, probes |-> 0, launched |-> <<>>, dumped |-> <<>>,
             raised |-> NoException]

\* the clock advances

Tick ==
  /\ last.seq < MaxCalls
  /\ \E d \in {AUTH_CACHE_DURATION \div 2, AUTH_CACHE_DURATION - 1} :
       now + d <= MaxTime /\ now' = now + d
  /\ UNCHANGED <<azure_cli_path, auth_status_cache, auth_cache_time, last, callers, call>>

\* a direct call of check_azure_cli_auth()
CheckAuth(locating) ==
  /\ last.seq < MaxCalls
  /\ \E env \in AuthEnvs(azure_cli_path, auth_status_cache, auth_cache_time, now, locating) :
       \E r \in {check_azure_cli_auth(azure_cli_path, auth_status_cache, auth_cache_time,
                                      now, env.probe, env.procs)} :
         /\ azure_cli_path' = r.path
         /\ auth_status_cache' = r.cache
         /\ auth_cache_time' = r.time
         /\ last' = Call("check_azure_cli_auth", <<>>, r.ret, r.runs, r.probes, r.launched, <<>>)
  /\ UNCHANGED <<now, callers, call>>

\* variant: the cached path is reset too
ClearAuthCache_ForgetsPath ==
  /\ last.seq < MaxCalls
  /\ azure_cli_path' = NonePath
  /\ auth_status_cache' = None
  /\ auth_cache_time' = NoTime
  /\ last' = Call("clear_auth_cache", <<>>,
                  [success |-> TRUE,
                   message |-> "Authentication cache cleared. Next tool call will re-check Azure CLI status."],
                  <<>>, 0, <<>>, <<>>)
  /\ UNCHANGED <<now, callers, call>>

\* variant: only the timestamp is reset
ClearAuthCache_KeepsStatus ==
  /\ last.seq < MaxCalls
  /\ auth_cache_time' = NoTime
  /\ last' = Call("clear_auth_cache", <<>>,
                  [success |-> TRUE,
                   message |-> "Authentication cache cleared. Next tool call will re-check Azure CLI status."],
                  <<>>, 0, <<>>, <<>>)
  /\ UNCHANGED <<now, azure_cli_path, auth_status_cache, callers, call>>

\* variant: only the status is reset
ClearAuthCache_KeepsTime ==
  /\ last.seq < MaxCalls
  /\ auth_status_cache' = None
  /\ last' = Call("clear_auth_cache", <<>>,
                  [success |-> TRUE,
                   message |-> "Authentication cache cleared. Next tool call will re-check Azure CLI status."],
                  <<>>, 0, <<>>, <<>>)
  /\ UNCHANGED <<now, azure_cli_path, auth_cache_time, callers, call>>

\* the tool clear_auth_cache
ClearAuthCache ==
  /\ last.seq < MaxCalls
  /\ auth_status_cache' = None
  /\ auth_cache_time' = NoTime
  /\ last' = Call("clear_auth_cache", <<>>,
                  [success |-> TRUE,
                   message |-> "Authentication cache cleared. Next tool call will re-check Azure CLI status."],
                  <<>>, 0, <<>>, <<>>)
  /\ UNCHANGED <<now, azure_cli_path, callers, call>>

\* the tool check_azure_cli_status
CheckStatus(locating) ==
  /\ last.seq < MaxCalls
  /\ \E env \in StageEnvs(azure_cli_path, locating) :
       \E r \in {check_azure_cli_status(azure_cli_path, env.probe, env.procs)} :
         /\ azure_cli_path' = r.path
         /\ last' = Call("check_azure_cli_status", <<>>, r.ret, r.runs, r.probes, r.launched, <<>>)
  /\ UNCHANGED <<now, auth_status_cache, auth_cache_time, callers, call>>

\* the arguments the tool is called with
TriggerNames == {"integration-main", "deploy-prod", "nomatch", "Deploy-Prod"}
TriggerBranches == {NoneStr, "dev"}
TriggerCounts == 0..MaxCount

\* the answers one call of bb7_trigger_bulk can get: those of the verification,
\* if the call gets that far, then one per trigger attempt
ReachesAuthCheck(name, branch) ==
  /\ PipelinesGet(name) # None
  /\ Truthy(branch) \/ Truthy(BranchOf(PipelinesGet(name)))

ToolAuthEnvs(reaches, path, cache, ctime, t, locating) ==
  IF reaches THEN AuthEnvs(path, cache, ctime, t, locating) ELSE {Env(NoProbe, <<>>)}

\* the tool bb7_trigger_bulk
TriggerBulk(locating, counts, answers, sinks) ==
  /\ last.seq < MaxCalls
  /\ \E name \in TriggerNames, count \in counts, branch \in TriggerBranches :
       \E env \in ToolAuthEnvs(ReachesAuthCheck(name, branch), azure_cli_path, auth_status_cache,
                                  auth_cache_time, now, locating) :
         \E r \in bb7_trigger_bulk(name, count, branch, PipelinesGet(name), azure_cli_path, auth_status_cache,
                                   auth_cache_time, now, env, answers, sinks) :
           /\ azure_cli_path' = r.path
           /\ auth_status_cache' = r.cache
           /\ auth_cache_time' = r.time
           /\ last' = [Call("bb7_trigger_bulk", <<name, count, branch>>, r.ret, r.runs,
                            r.probes, r.launched, r.dumped)
                       EXCEPT !.raised = r.raised]
  /\ UNCHANGED <<now, callers, call>>

\* the tool bb7_trigger_bulk of server_simple.py: it has no state of its own;
\* loaded is the config.yaml the call read
SimpleTriggerBulk(answers) ==
  /\ last.seq < MaxCalls
  /\ \E name \in SimpleTriggerNames, count \in TriggerCounts, branch \in TriggerBranches :
       \E config \in ConfigFiles, installed \in BOOLEAN :
         \E r \in simple_bb7_trigger_bulk(name, count, branch, config, Resolution[config][name],
                                         installed, answers) :
           last' = [Call("server_simple.bb7_trigger_bulk", <<name, count, branch>>,
                         IF r.raised # NoException THEN <<>> ELSE r.results,
                         r.runs, 0, r.launched, <<>>)
                    EXCEPT !.raised = r.raised] @@ [loaded |-> config]
  /\ UNCHANGED <<now, azure_cli_path, auth_status_cache, auth_cache_time, callers, call>>

\* the arguments of the list tools
ListTops == {0, 2, 5}

\* the tool bb7_list_runs
\* test_pipeline_access: the lookup, the auth gate, then one "az pipelines show"
test_pipeline_access(name, p, path, cache, ctime, t, env, answers) ==
  IF p = None
    THEN {ToolOutcome([error |-> <<"Pipeline '", name, "' not found in config.yaml">>,
                       available_pipelines |-> PipelineNames],
                      Untouched(path, cache, ctime), <<>>, 0, <<>>, <<>>)}
    ELSE UNION
      {IF ~auth_check.ret.authenticated
         THEN {ToolOutcome(auth_check.ret, auth_check, auth_check.runs,
                           auth_check.probes, auth_check.launched, <<>>)}
         ELSE {[ToolOutcome(
                  IF ~r.result.success
                    THEN [success |-> FALSE, pipeline_name |-> name,
                          error |-> r.result.error,
                          access_test |-> "Failed to access pipeline",
                          suggestion |-> "Check if the pipeline ID, organization, and project are correct, and you have permissions"]
                  ELSE IF ~IsDict(r.result.data)
                            \/ ~IsDict(GetOr(r.result.data, "repository", Dict(<<>>)))
                    THEN None
                  ELSE [success |-> TRUE, pipeline_name |-> name,
                        pipeline_info |->
                          [id |-> Get(r.result.data, "id"),
                           name |-> Get(r.result.data, "name"),
                           path |-> Get(r.result.data, "path"),
                           repository |->
                             Get(GetOr(r.result.data, "repository", Dict(<<>>)), "name"),
                           queue_status |-> Get(r.result.data, "queueStatus"),
                           type |-> Get(r.result.data, "type")],
                        access_test |-> "Pipeline is accessible and information retrieved successfully"],
                  [auth_check EXCEPT !.path = r.path],
                  Append(auth_check.runs, r.command), auth_check.probes + r.probes,
                  auth_check.launched \o r.launched, <<>>)
                EXCEPT !.raised =
                  IF r.result.success
                       /\ (~IsDict(r.result.data)
                           \/ ~IsDict(GetOr(r.result.data, "repository", Dict(<<>>))))
                    THEN "AttributeError" ELSE NoException]
               : r \in {[command |-> command] @@ run_az_command(auth_check.path, command,
                                                                <<>>, proc)
                        : command \in {<<"az", "pipelines", "show",
                                         "--organization", OrgUrl(p.organization),
                                         "--project", p.project,
                                         "--id", IdStr(p.pipelineID),
                                         "--output", "json">>},
                          proc \in answers}}
       : auth_check \in {check_azure_cli_auth(path, cache, ctime, t, env.probe, env.procs)}}

TestAccess(locating, answers) ==
  /\ last.seq < MaxCalls
  /\ \E name \in TriggerNames :
       \E env \in ToolAuthEnvs(PipelinesGet(name) # None, azure_cli_path, auth_status_cache,
                               auth_cache_time, now, locating) :
         \E r \in test_pipeline_access(name, PipelinesGet(name), azure_cli_path,
                                       auth_status_cache, auth_cache_time, now, env, answers) :
           /\ azure_cli_path' = r.path
           /\ auth_status_cache' = r.cache
           /\ auth_cache_time' = r.time
           /\ last' = [Call("test_pipeline_access", <<name>>, r.ret, r.runs,
                            r.probes, r.launched, r.dumped)
                       EXCEPT !.raised = r.raised]
  /\ UNCHANGED <<now, callers, call>>

ListRuns(locating, answers, sinks) ==
  /\ last.seq < MaxCalls
  /\ \E name \in TriggerNames, top \in ListTops :
       \E env \in ToolAuthEnvs(PipelinesGet(name) # None, azure_cli_path, auth_status_cache,
                               auth_cache_time, now, locating) :
         \E r \in bb7_list_runs(name, top, PipelinesGet(name), azure_cli_path, auth_status_cache,
                                auth_cache_time, now, env, answers, sinks) :
           /\ azure_cli_path' = r.path
           /\ auth_status_cache' = r.cache
           /\ auth_cache_time' = r.time
           /\ last' = [Call("bb7_list_runs", <<name, top>>, r.ret, r.runs,
                            r.probes, r.launched, r.dumped)
                       EXCEPT !.raised = r.raised]
  /\ UNCHANGED <<now, callers, call>>

\* the tool bb7_list_runs of server_simple.py
SimpleListRuns(answers) ==
  /\ last.seq < MaxCalls
  /\ \E name \in SimpleTriggerNames, top \in ListTops :
       \E config \in ConfigFiles, installed \in BOOLEAN :
         \E r \in simple_bb7_list_runs(name, top, config, Resolution[config][name], installed,
                                      answers) :
           last' = Call("server_simple.bb7_list_runs", <<name, top>>,
                        r.ret, r.runs, 0, r.launched, <<>>) @@ [loaded |-> config]
  /\ UNCHANGED <<now, azure_cli_path, auth_status_cache, auth_cache_time, callers, call>>

\* check_azure_cli_auth() executed by several threads without a lock.  A step
\* is one statement that reads or writes a global, together with the
\* statements on locals that follow it; a call of run_az_command is one step.
\* line 179: the thread reads the clock
RaceBegin ==
  \E c \in Callers :
    /\ callers[c].pc = "idle"
    /\ callers' = [callers EXCEPT ![c].pc = "test", ![c].current_time = Time(now)]
    /\ UNCHANGED <<now, azure_cli_path, auth_status_cache, auth_cache_time, last, call>>

\* lines 180-182: the test of the cache against the time read at line 179
RaceTest ==
  \E c \in Callers :
    /\ callers[c].pc = "test"
    /\ callers' = [callers EXCEPT ![c].pc =
                     IF CacheValid(auth_status_cache, auth_cache_time,
                                   callers[c].current_time[1])
                       THEN "cached" ELSE "version"]
    /\ UNCHANGED <<now, azure_cli_path, auth_status_cache, auth_cache_time, last, call>>

\* line 184: return _auth_status_cache
RaceReturnCached ==
  \E c \in Callers :
    /\ callers[c].pc = "cached"
    /\ callers' = [callers EXCEPT ![c].pc = "done", ![c].ret = auth_status_cache]
    /\ UNCHANGED <<now, azure_cli_path, auth_status_cache, auth_cache_time, last, call>>

\* the stages: the command and the answers of each, the result of a failure
RaceStages ==
  << [pc |-> "version", command |-> CmdVersion, outcomes |-> VersionOutcomes,
      failure |-> AuthNoCli],
     [pc |-> "account", command |-> CmdAccountShow, outcomes |-> AccountOutcomes,
      failure |-> AuthNoLogin],
     [pc |-> "extension", command |-> CmdExtensionShow, outcomes |-> ExtensionOutcomes,
      failure |-> AuthNoExtension] >>

\* the thread once the command of stage k has returned r
RaceAfterStage(caller, k, r) ==
  IF ~r.result.success
    THEN [caller EXCEPT !.pc = "store_status", !.auth_result = RaceStages[k].failure]
  ELSE IF k = Len(RaceStages)
    THEN [caller EXCEPT !.pc = "store_status", !.auth_result = AuthOk(r.result.data)]
  ELSE [caller EXCEPT !.pc = RaceStages[k + 1].pc]

\* lines 189, 201, 213: one of the three commands, and the result it leads to
RaceRun ==
  \E c \in Callers, k \in 1..Len(RaceStages) :
    /\ callers[c].pc = RaceStages[k].pc
    /\ \E proc \in RaceStages[k].outcomes :
         \E probe \in (IF azure_cli_path = NonePath
                         THEN {<<Exit(0, OutVersion, "")>>,
                               [i \in 1..Len(Candidates) |-> TimeoutExpired]}
                         ELSE {NoProbe}) :
           \E r \in {run_az_command(azure_cli_path, RaceStages[k].command, probe, proc)} :
             /\ azure_cli_path' = r.path
             /\ callers' = [callers EXCEPT ![c] = RaceAfterStage(callers[c], k, r)]
    /\ UNCHANGED <<now, auth_status_cache, auth_cache_time, last, call>>

\* lines 196, 208, 220, 226: _auth_status_cache = auth_result
RaceStoreStatus ==
  \E c \in Callers :
    /\ callers[c].pc = "store_status"
    /\ auth_status_cache' = callers[c].auth_result
    /\ callers' = [callers EXCEPT ![c].pc = "store_time"]
    /\ UNCHANGED <<now, azure_cli_path, auth_cache_time, last, call>>

\* lines 197, 209, 221, 227: _auth_cache_time = current_time, then the return
RaceStoreTime ==
  \E c \in Callers :
    /\ callers[c].pc = "store_time"
    /\ auth_cache_time' = callers[c].current_time
    /\ callers' = [callers EXCEPT ![c].pc = "done", ![c].ret = callers[c].auth_result]
    /\ UNCHANGED <<now, azure_cli_path, auth_status_cache, last, call>>

NextRace ==
  \/ Tick
  \/ RaceBegin
  \/ RaceTest
  \/ RaceReturnCached
  \/ RaceRun
  \/ RaceStoreStatus
  \/ RaceStoreTime

SpecRace == Init /\ [][NextRace]_vars

\* the runners on their own.  The commands: one of the verification, one of a
\* tool, and one that does not start with az
RunCommands == {CmdVersion, ListCommand(pipelines[1], 2), <<"git", "--version">>}

\* what the process of a command can do: print an object, nothing, a text
\* that is no JSON, an array, null, an array nested too deep, bytes that are
\* no text; exit with another code, with the message on either stream; not
\* finish in time; not start
RunnerOutcomes ==
  { Exit(0, OutRun, ""), Exit(0, "", ""), Exit(0, OutVersion, ""), Exit(0, OutRuns2, ""),
    Exit(0, OutNull, ""), Exit(0, OutDeep, ""), Exit(0, OutBadBytes, ""),
    Exit(1, "", "Pipeline not found\n"), Exit(1, "Service unavailable\n", ""),
    TimeoutExpired, OSError, [OSError EXCEPT !.stderr = "[Errno 2] No such file or directory"] }

\* a call of run_az_command(command)
RunAz(probes) ==
  /\ last.seq < MaxCalls
  /\ \E command \in RunCommands, proc \in RunnerOutcomes :
       \E probe \in (IF azure_cli_path = NonePath THEN probes ELSE {NoProbe}) :
         \E r \in {run_az_command(azure_cli_path, command, probe, proc)} :
           /\ azure_cli_path' = r.path
           /\ last' = Call("run_az_command", <<command>>, r.result, <<command>>,
                           r.probes, r.launched, <<>>)
  /\ UNCHANGED <<now, auth_status_cache, auth_cache_time, callers, call>>

\* a call of run_az_direct(command) of server_simple.py
RunAzDirect ==
  /\ last.seq < MaxCalls
  /\ \E command \in RunCommands, proc \in RunnerOutcomes, installed \in BOOLEAN :
       \E r \in {run_az_direct(command, installed, proc)} :
         last' = Call("run_az_direct", <<command>>, r.result, <<command>>,
                      0, r.launched, <<>>)
  /\ UNCHANGED <<now, azure_cli_path, auth_status_cache, auth_cache_time, callers, call>>

\* a call of find_azure_cli_path(); probe[i] is what the version probe of the
\* i-th candidate does if it is made: exit 0, exit 1, no answer in five
\* seconds, no start
Locate ==
  /\ last.seq < MaxCalls
  /\ \E probe \in [1..Len(Candidates) -> ProbeOutcomes \cup {OSError}] :
       \E r \in {find_azure_cli_path(probe)} :
         last' = Call("find_azure_cli_path", <<probe>>, r.path, <<>>, r.probes, <<>>, <<>>)
  /\ UNCHANGED <<now, azure_cli_path, auth_status_cache, auth_cache_time, callers, call>>

NextRun == RunAz(ProbeScripts) \/ RunAzDirect \/ Locate

SpecRun == Init /\ [][NextRun]_vars

\* find_pipeline on its own, called once: the catalogs are the sequences of at
\* most MaxCatalog entries with different names, the queries cover every tier
ResolveCatalogs ==
  LET entries == {pipelines[i] : i \in 1..Len(pipelines)}
                 \cup {[name |-> "test", organization |-> "contoso", project |-> "web",
                        pipelineID |-> 44],
                       [name |-> "", organization |-> "contoso", project |-> "web",
                        pipelineID |-> 45]}
  IN UNION {{c \in [1..n -> entries] : \A i, j \in 1..n : i # j => c[i].name # c[j].name}
            : n \in 0..MaxCatalog}

Resolve ==
  /\ last.op = "start"
  /\ \E query \in {"Deploy-Prod", " Int ", "int", "intx", "integration", "test", "TEST ",
                     "deploy", "build", "nomatch", "", "testing", " \t "}, catalog \in ResolveCatalogs :
       last' = Call("find_pipeline", <<query, catalog>>, find_pipeline(query, catalog),
                    <<>>, 0, <<>>, <<>>)
  /\ UNCHANGED <<now, azure_cli_path, auth_status_cache, auth_cache_time, callers, call>>

SpecResolve == Init /\ [][Resolve]_vars

NextAuth == Tick \/ CheckAuth(AnyInstall) \/ ClearAuthCache \/ CheckStatus(AnyInstall)

SpecAuth == Init /\ [][NextAuth]_vars

\* the pipeline tools of both servers, one of them called once after at most
\* MaxAuthCalls calls of the auth tools
TriggerOps == {"bb7_trigger_bulk", "server_simple.bb7_trigger_bulk"}
ListOps == {"bb7_list_runs", "server_simple.bb7_list_runs"}

NoTriggerYet == last.op \notin TriggerOps \cup ListOps

NextTrigger ==
  \/ NoTriggerYet /\ Tick
  \/ NoTriggerYet /\ last.seq < MaxAuthCalls /\ CheckAuth(PrimaryInstall)
  \/ NoTriggerYet /\ last.seq < MaxAuthCalls /\ ClearAuthCache
  \/ NoTriggerYet /\ TriggerBulk(PrimaryInstall, TriggerCounts \cup {-1}, RunOutcomes, {"written"})
  \/ NoTriggerYet /\ SimpleTriggerBulk(SimpleRunOutcomes)
  \/ NoTriggerYet /\ ListRuns(PrimaryInstall, ListOutcomes, {"written"})
  \/ NoTriggerYet /\ SimpleListRuns(ListOutcomes)

SpecTrigger == Init /\ [][NextTrigger]_vars

\* the tools with everything that can go wrong around them.  The answers of a
\* trigger command of server.py: the run created, an array, an object whose
\* _links is null, an authorization failure, another failure, no answer in
\* time, no start; those of server_simple.py; those of a list command, a
\* failure that reads like an expired login among them
FaultOutcomes ==
  [run |-> { Exit(0, OutRun, ""), Exit(0, OutRuns2, ""), Exit(0, OutRunNullLinks, ""),
             Exit(1, "", "Unauthorized: token expired\n"),
             Exit(1, "", "Pipeline not found\n"), TimeoutExpired, OSError },
   direct |-> { Exit(0, OutRun, ""), Exit(0, OutRuns2, ""),
                Exit(1, "", "Unauthorized: token expired\n"), TimeoutExpired, OSError },
   list |-> ListOutcomes \cup {Exit(0, OutNull, ""), TimeoutExpired, OSError,
                               Exit(1, "", "Unauthorized: token expired\n")}]

NextFault ==
  \/ NoTriggerYet /\ last.seq < MaxAuthCalls /\ CheckAuth(PrimaryInstall)
  \/ NoTriggerYet /\ last.seq < MaxAuthCalls /\ CheckStatus(PrimaryInstall)
  \/ NoTriggerYet /\ last.seq < MaxAuthCalls /\ ClearAuthCache
  \/ NoTriggerYet /\ TriggerBulk(PrimaryInstall, TriggerCounts, FaultOutcomes.run, DumpOutcomes)
  \/ NoTriggerYet /\ SimpleTriggerBulk(FaultOutcomes.direct)
  \/ NoTriggerYet /\ ListRuns(PrimaryInstall, FaultOutcomes.list, DumpOutcomes)
  \/ NoTriggerYet /\ SimpleListRuns(FaultOutcomes.list)

SpecFault == Init /\ [][NextFault]_vars

\* a session of tool calls that follow one another, the clock moving between
\* them: a tool is called first, or second, or right after a clear
SessionOpen ==
  IF last.seq = 0 THEN TRUE ELSE last.prev.op = "start" \/ last.op = "clear_auth_cache"

NextSession ==
  \/ Tick
  \/ last.seq < MaxAuthCalls /\ CheckAuth(PrimaryInstall)
  \/ ClearAuthCache
  \/ SessionOpen /\ TriggerBulk(PrimaryInstall, {2},
                                {Exit(0, OutRun, ""),
                                 Exit(1, "", "Unauthorized: token expired\n")},
                                {"written"})
  \/ SessionOpen /\ ListRuns(PrimaryInstall,
                             {Exit(0, OutRuns2, ""),
                              Exit(1, "", "Unauthorized: token expired\n")},
                             {"written"})
  \/ SessionOpen /\ TestAccess(PrimaryInstall,
                               {Exit(0, OutRun, ""), Exit(0, OutRuns2, ""),
                                Exit(1, "", "Pipeline not found\n")})

SpecSession == Init /\ [][NextSession]_vars

(***************************************************************************)
(* bb7_trigger_bulk statement by statement: the lookup and the branch, the *)
(* auth check, one step for each pass of the loop, the dump and the return.*)
(***************************************************************************)

\* lines 308-322: a call whose name or branch is missing returns at once
TriggerEnter ==
  /\ call.pc = "idle"
  /\ \E name \in TriggerNames, count \in TriggerCounts, branch \in TriggerBranches :
       call' = [call EXCEPT
                  !.args = <<name, count, branch>>,
                  !.pc = IF ReachesAuthCheck(name, branch) THEN "auth" ELSE "returned",
                  !.target_branch = IF ~ReachesAuthCheck(name, branch) THEN NoneStr
                                    ELSE IF Truthy(branch) THEN branch
                                    ELSE BranchOf(PipelinesGet(name)),
                  !.ret = IF ReachesAuthCheck(name, branch) THEN <<>>
                          ELSE (CHOOSE r \in bb7_trigger_bulk(name, count, branch,
                                                              PipelinesGet(name), NonePath,
                                                              None, NoTime, 0,
                                                              Env(NoProbe, <<>>), {}, {})
                                  : TRUE).ret]
  /\ UNCHANGED <<now, azure_cli_path, auth_status_cache, auth_cache_time, last, callers>>

\* lines 325-329
TriggerCheck ==
  /\ call.pc = "auth"
  /\ \E env \in AuthEnvs(azure_cli_path, auth_status_cache, auth_cache_time, now,
                         PrimaryInstall) :
       \E r \in {check_azure_cli_auth(azure_cli_path, auth_status_cache, auth_cache_time,
                                      now, env.probe, env.procs)} :
         /\ azure_cli_path' = r.path
         /\ auth_status_cache' = r.cache
         /\ auth_cache_time' = r.time
         /\ call' = [call EXCEPT
                       !.auth_check = r,
                       !.pc = IF r.ret.authenticated THEN "loop" ELSE "returned",
                       !.ret = IF r.ret.authenticated THEN <<>> ELSE <<r.ret>>,
                       !.loop = LoopState(<<>>, r.path, <<>>, 0, <<>>, NoException)]
  /\ UNCHANGED <<now, last, callers>>

\* variant: a pass whose command was stopped by the timeout starts the batch over
TriggerAttempt_StartsOver(answers) ==
  /\ call.pc = "loop"
  /\ call.i < call.args[2]
  /\ \E loop \in TriggerLoop(call.i, call.i + 1, call.args[1], PipelinesGet(call.args[1]),
                             call.target_branch, answers, call.loop) :
       /\ azure_cli_path' = loop.path
       /\ call' = IF loop.launched[Len(loop.launched)].proc.kind = "TimeoutExpired"
                    THEN [call EXCEPT !.i = 0,
                                      !.loop = LoopState(<<>>, loop.path, <<>>, 0, <<>>,
                                                         NoException)]
                    ELSE [call EXCEPT
                            !.loop = loop,
                            !.i = call.i + 1,
                            !.pc = IF /\ ~loop.results[Len(loop.results)].success
                                      /\ loop.results[Len(loop.results)].error
                                           \in AuthenticationErrors
                                     THEN "dump"
                                   ELSE "loop"]
  /\ UNCHANGED <<now, auth_status_cache, auth_cache_time, last, callers>>

\* lines 331-376: one pass of the loop
TriggerAttempt(answers) ==
  /\ call.pc = "loop"
  /\ call.i < call.args[2]
  /\ \E loop \in TriggerLoop(call.i, call.i + 1, call.args[1], PipelinesGet(call.args[1]),
                             call.target_branch, answers, call.loop) :
       /\ azure_cli_path' = loop.path
       /\ call' = [call EXCEPT
                     !.loop = loop,
                     !.i = call.i + 1,
                     !.pc = IF loop.raised # NoException THEN "raised"
                            ELSE IF /\ ~loop.results[Len(loop.results)].success
                                    /\ loop.results[Len(loop.results)].error
                                         \in AuthenticationErrors
                              THEN "dump"
                            ELSE "loop"]
  /\ UNCHANGED <<now, auth_status_cache, auth_cache_time, last, callers>>

\* lines 378-381, reached by the break or when range(count) is used up
TriggerReturn ==
  /\ call.pc = "dump" \/ (call.pc = "loop" /\ call.i >= call.args[2])
  /\ call' = [call EXCEPT
                !.pc = "returned",
                !.ret = TriggerEnd(call.auth_check, call.loop, "written").ret]
  /\ UNCHANGED <<now, azure_cli_path, auth_status_cache, auth_cache_time, last, callers>>

\* every command the loop runs exits, or is stopped by its timeout
NextSteps ==
  \/ call.pc = "idle" /\ last.seq < MaxAuthCalls /\ CheckAuth(PrimaryInstall)
  \/ TriggerEnter
  \/ TriggerCheck
  \/ TriggerAttempt(RunOutcomes \cup {TimeoutExpired})
  \/ TriggerReturn

\* a call that was entered goes on: each statement of its thread is executed
SpecSteps ==
  /\ Init /\ [][NextSteps]_vars
  /\ WF_vars(TriggerCheck)
  /\ WF_vars(TriggerAttempt(RunOutcomes \cup {TimeoutExpired}))
  /\ WF_vars(TriggerReturn)

Next ==
  \/ Tick
  \/ CheckAuth(AnyInstall)
  \/ ClearAuthCache
  \/ CheckStatus(AnyInstall)
  \/ TriggerBulk(AnyInstall, TriggerCounts \cup {-1}, RunOutcomes, DumpOutcomes)
  \/ SimpleTriggerBulk(SimpleRunOutcomes)
  \/ ListRuns(AnyInstall, ListOutcomes, DumpOutcomes)
  \/ SimpleListRuns(ListOutcomes)
  \/ TestAccess(AnyInstall, RunOutcomes)

Spec == Init /\ [][Next]_vars

(***************************************************************************)
(* Properties.  last describes the most recent call; the clock is the only *)
(* thing that moves between two calls, so the cache variables are as that  *)
(* call left them.                                                         *)
(***************************************************************************)
IsCheck == last.op = "check_azure_cli_auth"
IsTrigger == last.op \in TriggerOps

\* the call found a cache entry, and its age at the time of the call
HadEntry == last.before.cache # None /\ last.before.time # NoTime
AgeAtCall == last.at - last.before.time[1]
FoundFresh == HadEntry /\ AgeAtCall < AUTH_CACHE_DURATION

\* the process exited with code 0
ExitedZero(proc) == proc.kind = "exit" /\ proc.rc = 0

\* the error text of a process that exited with another code
ErrorText(proc) ==
  IF Strip(proc.stderr) # "" THEN Strip(proc.stderr) ELSE Strip(proc.stdout)

\* the terms that name a login, credential or authorization problem, and for
\* each the texts that contain it, in any letter case
AuthTerms == {"login", "credential", "unauthorized", "authentication"}
Mentioning ==
  [term \in AuthTerms |->
     {text \in DOMAIN Chars : IsSubstring(Chars[term], Lower(Chars[text]))}]

\* the process exited with another code than 0 and its error text contains
\* the term, in any letter case
Mentions(proc, term) ==
  /\ proc.kind = "exit" /\ proc.rc # 0
  /\ ErrorText(proc) \in Mentioning[term]

\* the trigger commands the call launched, in order
IsTriggerLaunch(e) == Len(e.argv) >= 3 /\ e.argv[2] = "pipelines" /\ e.argv[3] = "run"
TriggerLaunches == SelectSeq(last.launched, IsTriggerLaunch)

\* the call this step makes
Calls(op) == last'.seq = last.seq + 1 /\ last'.op = op

\* C1: a check() that finds a cache entry whose age is not below the 5-minute
\* TTL does not return it: it runs the verification from its first stage and
\* returns the result computed now, stored with the time of this call.
C1_ExpiredEntryNotReturned ==
  (IsCheck /\ HadEntry /\ AgeAtCall >= AUTH_CACHE_DURATION) =>
    /\ last.runs # <<>>
    /\ last.runs[1] = CmdVersion
    /\ auth_cache_time = Time(last.at)
    /\ auth_status_cache = last.ret

C1_Witness ==
  /\ IsCheck /\ HadEntry
  /\ AgeAtCall = AUTH_CACHE_DURATION
  /\ last.before.cache.authenticated
  /\ last.runs # <<>>

\* C2: a check() that finds a cache entry younger than the TTL returns that
\* entry, invokes neither the command runner nor the locator, and leaves the
\* cached status and its timestamp as they were.
C2_FreshEntryReturned ==
  (IsCheck /\ FoundFresh) =>
    /\ last.ret = last.before.cache
    /\ last.runs = <<>> /\ last.launched = <<>> /\ last.probes = 0
    /\ auth_status_cache = last.before.cache
    /\ auth_cache_time = last.before.time

C2_Witness ==
  /\ IsCheck /\ HadEntry
  /\ AgeAtCall = AUTH_CACHE_DURATION - 1
  /\ last.ret.authenticated
  /\ last.runs = <<>>

\* C3 (as claimed): a check_azure_cli_status call that follows another one
\* within the TTL runs no external command and returns the first call's result.
C3_StatusWithinTtlRunsNothing ==
  [][(/\ last.op = "check_azure_cli_status"
      /\ Calls("check_azure_cli_status")
      /\ now - last.at < AUTH_CACHE_DURATION)
     => (last'.runs = <<>> /\ last'.launched = <<>> /\ last'.ret = last.ret)]_vars

\* C4: every result of a check() that missed the cache, negative or positive,
\* is stored with the time of the call; and a check() that finds a negative
\* entry younger than the TTL returns it without running anything.
C4_NegativeResultsCached ==
  /\ (IsCheck /\ ~FoundFresh) =>
       (auth_status_cache = last.ret /\ auth_cache_time = Time(last.at))
  /\ (IsCheck /\ FoundFresh /\ ~last.before.cache.authenticated) =>
       /\ last.ret = last.before.cache
       /\ last.runs = <<>> /\ last.launched = <<>> /\ last.probes = 0

C4_Witness ==
  /\ IsCheck /\ FoundFresh
  /\ last.before.cache.error = "Not logged into Azure CLI. Please run 'az login' first."
  /\ last.ret = last.before.cache
  /\ last.runs = <<>>

\* C5: clear_auth_cache leaves no cache entry, whatever it found, and the
\* check() that follows it runs the verification from its first stage.
C5_ClearForcesVerification ==
  [][/\ Calls("clear_auth_cache") =>
          (auth_status_cache' = None /\ auth_cache_time' = NoTime)
     /\ (last.op = "clear_auth_cache" /\ Calls("check_azure_cli_auth")) =>
          (last'.runs # <<>> /\ last'.runs[1] = CmdVersion)]_vars

\* a positive entry, still fresh, is cleared and the check that follows runs
\* the verification
C5_Witness ==
  /\ IsCheck /\ last.prev.op = "clear_auth_cache"
  /\ last.prev.before.cache # None /\ last.prev.before.cache.authenticated
  /\ last.at - last.prev.before.time[1] < AUTH_CACHE_DURATION
  /\ last.before.cache = None
  /\ last.runs # <<>>

\* C6: a check() that misses the cache runs the stages in the order version,
\* account, extension and stops at the first that fails: with stage k the
\* first to fail, k commands were handed to the runner and the result is
\* negative with the hint of stage k; with none failing, all three were
\* handed over and the result is positive.
StageCommands == <<CmdVersion, CmdAccountShow, CmdExtensionShow>>
StageHints ==
  << "Azure CLI not found. Please install Azure CLI first.",
     "Not logged into Azure CLI. Please run 'az login' first.",
     "Azure DevOps extension not installed." >>

C6_StagesInOrderUntilFirstFailure ==
  (IsCheck /\ ~FoundFresh) =>
    LET n == Len(last.runs)
        \* stage k failed: no executable was found for it, or its process failed
        failed(k) == k > Len(last.launched) \/ ~ExitedZero(last.launched[k].proc)
    IN /\ n \in 1..3
       /\ last.runs = SubSeq(StageCommands, 1, n)
       /\ Len(last.launched) \in {n - 1, n}
       /\ \A k \in 1..Len(last.launched) : Tail(last.launched[k].argv) = Tail(StageCommands[k])
       /\ \A k \in 1..(n - 1) : ~failed(k)
       /\ failed(n) => (~last.ret.authenticated /\ last.ret.error = StageHints[n])
       /\ ~failed(n) => (n = 3 /\ last.ret.authenticated)

C6_Witness ==
  /\ IsCheck /\ ~FoundFresh
  /\ Len(last.launched) = 2
  /\ ExitedZero(last.launched[1].proc)
  /\ last.launched[2].proc.kind = "TimeoutExpired"
  /\ last.ret.error = StageHints[2]

\* C7 (as claimed): the positive result of a check() whose three stages all
\* succeeded carries the data the account stage (stage 2) returned.
C7_PositiveCarriesAccountData ==
  (IsCheck /\ ~FoundFresh /\ last.ret.authenticated) =>
    last.ret.account = json_loads(last.launched[2].proc.stdout)

\* C8: when attempt k is the first trigger attempt that fails with an error
\* text containing "unauthorized" in any letter case, the batch has exactly k
\* entries, its k-th entry is that failed attempt, and no further trigger
\* command is launched.
C8_UnauthorizedEndsTheLoop ==
  IsTrigger =>
    \A k \in 1..Len(TriggerLaunches) :
      (/\ Mentions(TriggerLaunches[k].proc, "unauthorized")
       /\ \A j \in 1..(k - 1) : ~Mentions(TriggerLaunches[j].proc, "unauthorized"))
      => /\ Len(TriggerLaunches) = k
         /\ Len(last.ret) = k
         /\ last.ret[k].success = FALSE
         /\ last.ret[k].run_number = k
         /\ last.ret[k].error = ErrorText(TriggerLaunches[k].proc)

C8_Witness ==
  /\ IsTrigger /\ last.args[2] = 3
  /\ Len(TriggerLaunches) = 2
  /\ ExitedZero(TriggerLaunches[1].proc)
  /\ Mentions(TriggerLaunches[2].proc, "unauthorized")
  /\ Len(last.ret) = 2

\* C9 (as claimed): a failed trigger attempt whose error text contains, in any
\* letter case, "login", "credential", "unauthorized" or "authentication" is
\* the last attempt of its call.
C9_AuthTermsEndTheLoop ==
  IsTrigger =>
    \A k \in 1..Len(TriggerLaunches) :
      (\E term \in AuthTerms : Mentions(TriggerLaunches[k].proc, term))
      => (Len(TriggerLaunches) = k /\ Len(last.ret) = k)

\* C10 (as claimed): a trigger call without branch override whose name
\* resolves to an entry without configured branch returns one entry that
\* reports an error, hands no command to a runner, launches no process and
\* leaves the auth cache as it was.
Resolved ==
  IF last.op = "bb7_trigger_bulk" THEN PipelinesGet(last.args[1])
  ELSE Resolution[last.loaded][last.args[1]]

C10_MissingBranchGuard ==
  (/\ IsTrigger
   /\ Resolved # None /\ "branch" \notin DOMAIN Resolved
   /\ last.args[3] = NoneStr) =>
    /\ Len(last.ret) = 1
    /\ "error" \in DOMAIN last.ret[1]
    /\ last.runs = <<>> /\ last.launched = <<>> /\ last.probes = 0
    /\ auth_status_cache = last.before.cache
    /\ auth_cache_time = last.before.time

\* the runs-list commands the call launched
IsListLaunch(e) ==
  Len(e.argv) >= 4 /\ e.argv[2] = "pipelines" /\ e.argv[3] = "runs" /\ e.argv[4] = "list"
ListLaunches == SelectSeq(last.launched, IsListLaunch)

IsListCall == last.op \in ListOps

\* the call is one of server.py's pipeline tools and got as far as its
\* check_azure_cli_auth(); the auth cache then holds what that check returned
ReachedAuthCheck ==
  \/ last.op = "bb7_trigger_bulk" /\ ReachesAuthCheck(last.args[1], last.args[3])
  \/ last.op = "bb7_list_runs" /\ PipelinesGet(last.args[1]) # None

\* C11: when the check() of a trigger or list call yields a negative status,
\* the trigger call returns a batch of that one status and the list call
\* returns that status; neither hands any command but the check's own to the
\* runner, and no trigger or list command is launched.
C11_AuthFailureShortCircuit ==
  (ReachedAuthCheck /\ ~auth_status_cache.authenticated) =>
    /\ last.ret = IF IsTrigger THEN <<auth_status_cache>> ELSE auth_status_cache
    /\ TriggerLaunches = <<>> /\ ListLaunches = <<>>
    /\ Len(last.runs) <= Len(StageCommands)
    /\ last.runs = SubSeq(StageCommands, 1, Len(last.runs))
    /\ last.dumped = <<>>

\* a trigger call for three runs whose check finds the user logged out
C11_Witness ==
  /\ last.op = "bb7_trigger_bulk" /\ last.args[2] = 3
  /\ last.runs = <<CmdVersion, CmdAccountShow>>
  /\ last.ret = <<AuthNoLogin>>

\* the catalog the call worked with, and the names in it, in order
CatalogOfCall ==
  IF last.op \in {"bb7_trigger_bulk", "bb7_list_runs"} THEN pipelines
  ELSE IF last.loaded.readable THEN last.loaded.pipelines ELSE <<>>
NamesOfCall == [i \in 1..Len(CatalogOfCall) |-> CatalogOfCall[i].name]

\* the names a reply lists as available
Listed(reply) ==
  IF "available_pipelines" \in DOMAIN reply THEN reply.available_pipelines
  ELSE IF "available" \in DOMAIN reply THEN reply.available
  ELSE <<>>

\* C12: a trigger call whose name resolves to no entry returns a batch of one
\* element that reports an error and lists every name of the catalog, in
\* order; it hands no command to a runner, launches no process, makes no probe
\* and leaves the auth cache as it found it.
C12_UnresolvedNameListsCatalog ==
  (IsTrigger /\ Resolved = None) =>
    /\ Len(last.ret) = 1
    /\ "error" \in DOMAIN last.ret[1]
    /\ Listed(last.ret[1]) = NamesOfCall
    /\ last.runs = <<>> /\ last.launched = <<>> /\ last.probes = 0
    /\ auth_status_cache = last.before.cache
    /\ auth_cache_time = last.before.time

\* server.py is asked for "nomatch" with an empty auth cache
C12_Witness ==
  /\ last.op = "bb7_trigger_bulk" /\ last.args[1] = "nomatch" /\ last.args[2] = 3
  /\ last.before.cache = None
  /\ Listed(last.ret[1]) = <<"integration-main", "integration-test", "deploy-prod">>
  /\ last.runs = <<>>

\* C13 (as claimed): a list call whose command printed an array of n run
\* records returns the first min(n, top) of them and a count equal to the
\* number of records it returns.
Min(a, b) == IF a <= b THEN a ELSE b

C13_ListTruncatedToTop ==
  (/\ IsListCall
   /\ ListLaunches # <<>>
   /\ ExitedZero(ListLaunches[1].proc)
   /\ IsList(json_loads(ListLaunches[1].proc.stdout))) =>
    LET received == json_loads(ListLaunches[1].proc.stdout).v
        top == last.args[2]
    IN /\ last.ret.runs = List(SubSeq(received, 1, Min(Len(received), top)))
       /\ last.ret.count = Min(Len(received), top)

\* the reply of a pipeline tool says that the name was not found
IsNotFound(reply) ==
  "available_pipelines" \in DOMAIN reply \/ "available" \in DOMAIN reply
NotFoundReturned ==
  IF IsTrigger THEN Len(last.ret) >= 1 /\ IsNotFound(last.ret[1])
  ELSE IsNotFound(last.ret)

\* the name argument, lowered and trimmed
QueryOfCall == StripChars(Lower(Chars[last.args[1]]))

\* C14 (as claimed): a trigger or list call whose name equals a catalog name
\* up to letter case and surrounding whitespace, or is contained in one, does
\* not return the not-found error.
C14_ToolsResolveThroughTiers ==
  (/\ IsTrigger \/ IsListCall
   /\ \/ Exact(QueryOfCall, CatalogOfCall) # {}
      \/ Containing(QueryOfCall, CatalogOfCall) # {}) =>
    ~NotFoundReturned

\* a call of find_pipeline, its catalog, its query lowered and trimmed, and
\* the positions of the entries that equal or contain the query
IsResolve == last.op = "find_pipeline"
ResolveCatalog == last.args[2]
ResolveQuery == StripChars(Lower(Chars[last.args[1]]))
EqualTo == {i \in 1..Len(ResolveCatalog) : Lower(Chars[ResolveCatalog[i].name]) = ResolveQuery}
Contain ==
  {i \in 1..Len(ResolveCatalog) : IsSubstring(ResolveQuery, Lower(Chars[ResolveCatalog[i].name]))}

\* C15: if the name of an entry equals the trimmed query up to letter case,
\* find_pipeline returns that entry, also when an earlier entry contains the
\* query.
C15_ExactBeforeSubstring ==
  IsResolve =>
    \A i \in EqualTo : (\A j \in EqualTo : i <= j) => last.ret = ResolveCatalog[i]

\* "TEST " against integration-test, test: the first contains, the second equals
C15_Witness ==
  /\ IsResolve /\ last.args[1] = "TEST "
  /\ Len(ResolveCatalog) = 2
  /\ ResolveCatalog[1].name = "integration-test" /\ ResolveCatalog[2].name = "test"
  /\ 1 \in Contain /\ EqualTo = {2}
  /\ last.ret = ResolveCatalog[2]

\* C16: if no name equals the query and some name contains it, find_pipeline
\* returns the first entry, in the order of the catalog, whose name contains it.
C16_FirstSubstringMatch ==
  (IsResolve /\ EqualTo = {} /\ Contain # {}) =>
    \E i \in Contain : (\A j \in Contain : i <= j) /\ last.ret = ResolveCatalog[i]

C16_Witness ==
  /\ IsResolve /\ last.args[1] = "integration"
  /\ Len(ResolveCatalog) = 2
  /\ ResolveCatalog[1].name = "integration-main" /\ ResolveCatalog[2].name = "integration-test"
  /\ EqualTo = {} /\ Contain = {1, 2}
  /\ last.ret.name = "integration-main"

\* the catalog of the example: integration-main, integration-test
IsIntegrationCatalog ==
  /\ Len(ResolveCatalog) = 2
  /\ ResolveCatalog[1].name = "integration-main" /\ ResolveCatalog[2].name = "integration-test"

\* C17 (as claimed): against integration-main, integration-test the query
\* "int" is resolved by the abbreviations (tier 3) to an entry whose name
\* contains "integration".
C17_IntResolvedByAbbreviation ==
  (IsResolve /\ IsIntegrationCatalog /\ last.args[1] = "int") =>
    /\ find_pipeline_tier(last.args[1], ResolveCatalog) = 3
    /\ last.ret # None
    /\ IsSubstring(Chars["integration"], Chars[last.ret.name])

\* C17 (amended): against integration-main, integration-test the query "int"
\* is resolved by the substring tier (tier 2) to integration-main, the first
\* entry whose name contains it; the abbreviations (tier 3) resolve a query
\* that starts with "int" and that no name contains, such as "intx", to the
\* same entry.
C17_IntResolvedBySubstring ==
  (IsResolve /\ IsIntegrationCatalog /\ last.args[1] \in {"int", "intx"}) =>
    /\ find_pipeline_tier(last.args[1], ResolveCatalog) = IF last.args[1] = "int" THEN 2 ELSE 3
    /\ last.ret # None
    /\ last.ret.name = "integration-main"

C17_Witness ==
  /\ IsResolve /\ IsIntegrationCatalog /\ last.args[1] = "int"
  /\ 1 \in Contain
  /\ last.ret.name = "integration-main"

\* the reply of the call: the one element of a trigger batch, or what a list
\* call returned
Reply == IF IsTrigger THEN last.ret[1] ELSE last.ret

\* no tier of the resolver the call uses matches its name: pipelines.get in
\* server.py, find_pipeline in server_simple.py
TierReached ==
  [config \in ConfigFiles |->
     [name \in SimpleTriggerNames |-> find_pipeline_tier(name, load_pipelines(config))]]

NoTierMatches ==
  IF last.op \in {"bb7_trigger_bulk", "bb7_list_runs"}
    THEN \A i \in 1..Len(pipelines) : pipelines[i].name # last.args[1]
    ELSE TierReached[last.loaded][last.args[1]] = 0

\* C18: when no tier matches the name of a trigger or list call, the call
\* reports an error and lists every name of the catalog, in order.
C18_NotFoundListsEveryName ==
  ((IsTrigger \/ IsListCall) /\ NoTierMatches) =>
    /\ IsTrigger => Len(last.ret) = 1
    /\ "error" \in DOMAIN Reply
    /\ Listed(Reply) = NamesOfCall
    /\ last.launched = <<>>

\* "nomatch" against a catalog of two entries: both names are listed
C18_Witness ==
  /\ last.op = "server_simple.bb7_list_runs" /\ last.args[1] = "nomatch"
  /\ Len(CatalogOfCall) = 2
  /\ Listed(last.ret) = <<"integration-main", "integration-test">>

\* C19: once a path is cached, no step changes it; every call made after that
\* makes no version probe of a candidate and launches each of its processes
\* with that path, whatever the calls are: checks, status reports, clears.
C19_LocatedPathIsKept ==
  [][azure_cli_path # NonePath =>
       /\ azure_cli_path' = azure_cli_path
       /\ last'.seq = last.seq + 1 =>
            /\ last'.probes = 0
            /\ \A k \in 1..Len(last'.launched) :
                 last'.launched[k].argv[1] = azure_cli_path]_vars

\* a status report right after a clear runs its three commands with the
\* cached path, without a probe
C19_Witness ==
  /\ last.op = "check_azure_cli_status" /\ last.prev.op = "clear_auth_cache"
  /\ azure_cli_path # NonePath
  /\ last.probes = 0
  /\ Len(last.launched) = 3
  /\ \A k \in 1..3 : last.launched[k].argv[1] = azure_cli_path

\* the call searched every candidate and found none
LocatedNothing ==
  /\ last.op \in {"check_azure_cli_auth", "check_azure_cli_status"}
  /\ last.probes = Len(Candidates)
  /\ azure_cli_path = NonePath

\* C20 (as claimed): after a call in which the search found no executable,
\* the next call that asks the runner for a command, no clear in between,
\* gets the tool-unavailable failure: no process is launched.
C20_NotFoundIsPermanent ==
  [][(/\ LocatedNothing
      /\ last'.seq = last.seq + 1
      /\ last'.op \in {"check_azure_cli_auth", "check_azure_cli_status"}
      /\ last'.runs # <<>>)
     => (last'.launched = <<>> /\ azure_cli_path' = NonePath)]_vars

\* a call of one of the two runners, the process it launched and what that
\* process printed
IsRun == last.op \in {"run_az_command", "run_az_direct"}
Launched == last.launched # <<>>
RunProc == last.launched[1].proc
Unparseable == {JsonDecodeError, JsonRecursionError}

\* C22 (as claimed): a run whose process exits with code 0 returns a success,
\* whatever the process printed: the parsed value if the output is JSON, the
\* empty object if it is blank, and otherwise the raw text under "output".
C22_ExitZeroIsSuccess ==
  (IsRun /\ Launched /\ ExitedZero(RunProc)) =>
    /\ last.ret.success
    /\ RunProc.stdout # OutBadBytes
    /\ last.ret.data =
         IF Strip(RunProc.stdout) = "" THEN Dict(<<>>)
         ELSE IF json_loads(RunProc.stdout) \in Unparseable
           THEN Dict([output |-> RunProc.stdout])
           ELSE json_loads(RunProc.stdout)

\* C23: a run whose process does not finish in time returns a failure that
\* says the command timed out and has no exit code; a run whose process could
\* not be started returns a failure with the text of the error; and every
\* run returns a result.
C23_TimeoutAndLaunchErrorAreFailures ==
  IsRun =>
    /\ "success" \in DOMAIN last.ret
    /\ (Launched /\ RunProc.kind = "TimeoutExpired") =>
         /\ ~last.ret.success
         /\ "exit_code" \notin DOMAIN last.ret
         /\ IsSubstring(Chars["timed out"], Lower(Chars[last.ret.error]))
    /\ (Launched /\ RunProc.kind = "OSError") =>
         /\ ~last.ret.success
         /\ "exit_code" \notin DOMAIN last.ret
         /\ last.ret.error = RunProc.stderr

\* run_az_command gives up on a command after 30 seconds
C23_Witness ==
  /\ last.op = "run_az_command" /\ Launched
  /\ RunProc.kind = "TimeoutExpired"
  /\ last.ret = Failure("Command timed out after 30 seconds")

\* the call returned a value; dump_response was called and raised
Returned == last.raised = NoException
SinkFailed == last.dumped # <<>> /\ last.raised = "OSError"

\* C21 (as claimed): every tool call returns a value, whatever the external
\* command did: no exception leaves the tool (a failure of the debug sink
\* apart).
C21_EveryCallReturns ==
  (last.op # "start" /\ ~SinkFailed) => Returned

\* C24 (as claimed): a trigger or list call that hands a payload to the debug
\* sink returns the value built from that payload, whether or not the sink
\* could store it.
C24_SinkFailureNotPropagated ==
  last.dumped # <<>> =>
    /\ Returned
    /\ last.op = "bb7_trigger_bulk" => last.ret = last.dumped[1].data
    /\ last.op = "bb7_list_runs" => last.ret.runs = last.dumped[1].data

\* the trigger call got as far as its loop
ReachedLoop ==
  \/ /\ last.op = "bb7_trigger_bulk"
     /\ ReachesAuthCheck(last.args[1], last.args[3])
     /\ auth_status_cache.authenticated
  \/ /\ last.op = "server_simple.bb7_trigger_bulk"
     /\ Resolved # None

\* C25: in every batch returned from the trigger loop the entry at position j
\* carries the attempt number j, and the batch has at most count entries.
C25_OrdinalsFollowPositions ==
  (ReachedLoop /\ Returned) =>
    /\ Len(last.ret) <= last.args[2]
    /\ \A j \in 1..Len(last.ret) : last.ret[j].run_number = j

\* three attempts: the second runs out of time, the others succeed
C25_Witness ==
  /\ last.op = "bb7_trigger_bulk" /\ Returned /\ last.args[2] = 3
  /\ Len(last.ret) = 3
  /\ last.ret[1].success /\ ~last.ret[2].success /\ last.ret[3].success
  /\ last.ret[2].run_number = 2 /\ last.ret[3].run_number = 3

\* the branch a trigger command names, and the branch an entry of the batch
\* records
BranchSent(argv) == argv[1 + CHOOSE i \in 1..(Len(argv) - 1) : argv[i] = "--branch"]
BranchRecorded(entry) ==
  IF "branch_used" \in DOMAIN entry THEN entry.branch_used ELSE entry.branch

\* C26: all trigger commands of one call name the same branch: the override
\* if the call has one, otherwise the branch configured for the entry; and a
\* successful entry of the batch records the branch its command named.
C26_OneBranchPerCall ==
  IsTrigger =>
    /\ Truthy(last.args[3]) =>
         \A k \in 1..Len(TriggerLaunches) :
           BranchSent(TriggerLaunches[k].argv) = last.args[3]
    /\ (~Truthy(last.args[3]) /\ Resolved # None /\ "branch" \in DOMAIN Resolved) =>
         \A k \in 1..Len(TriggerLaunches) :
           BranchSent(TriggerLaunches[k].argv) = Resolved.branch
    /\ (ReachedLoop /\ Returned) =>
         \A j \in 1..Len(last.ret) :
           last.ret[j].success =>
             BranchRecorded(last.ret[j]) = BranchSent(TriggerLaunches[j].argv)

\* integration-main, configured for main, is triggered twice on dev
C26_Witness ==
  /\ last.op = "bb7_trigger_bulk" /\ Returned
  /\ last.args = <<"integration-main", 2, "dev">>
  /\ Len(TriggerLaunches) = 2
  /\ BranchSent(TriggerLaunches[1].argv) = "dev"
  /\ BranchSent(TriggerLaunches[2].argv) = "dev"
  /\ last.ret[1].success /\ last.ret[1].branch_used = "dev"

\* the signal on which the loop of server.py ends
SignalTerms == {"authentication", "unauthorized"}
Signalled(proc) == \E term \in SignalTerms : Mentions(proc, term)

\* C28 (as claimed): a trigger call of server.py that reaches its loop and in
\* which no attempt fails with the authentication signal launches exactly
\* count trigger commands and returns a batch of exactly count entries.
C28_FullLoopWithoutSignal ==
  (/\ last.op = "bb7_trigger_bulk" /\ ReachedLoop
   /\ \A k \in 1..Len(TriggerLaunches) : ~Signalled(TriggerLaunches[k].proc)) =>
    /\ Len(TriggerLaunches) = last.args[2]
    /\ Returned
    /\ Len(last.ret) = last.args[2]

\* the trigger commands the call handed to its runner
IsTriggerCommand(command) ==
  Len(command) >= 3 /\ command[2] = "pipelines" /\ command[3] = "run"
TriggerCommands == SelectSeq(last.runs, IsTriggerCommand)

\* C29: a trigger call never repeats an attempt: it hands at most count
\* trigger commands to its runner, each launched once, and a batch returned
\* from the loop has one entry per command, the j-th entry reporting what
\* the j-th process did, a process that ran out of time included.
C29_OneCommandPerAttempt ==
  IsTrigger =>
    /\ Len(TriggerCommands) <= last.args[2]
    /\ Len(TriggerLaunches) = Len(TriggerCommands)
    /\ (ReachedLoop /\ Returned) =>
         /\ Len(last.ret) = Len(TriggerCommands)
         /\ \A j \in 1..Len(last.ret) :
              /\ last.ret[j].success = ExitedZero(TriggerLaunches[j].proc)
              /\ TriggerLaunches[j].proc.kind = "TimeoutExpired" =>
                   IsSubstring(Chars["timed out"], Lower(Chars[last.ret[j].error]))

\* the second of three attempts runs out of time and the third is still made
C29_Witness ==
  /\ last.op = "bb7_trigger_bulk" /\ Returned /\ last.args[2] = 3
  /\ Len(TriggerLaunches) = 3 /\ Len(last.ret) = 3
  /\ TriggerLaunches[2].proc.kind = "TimeoutExpired"
  /\ last.ret[2].error = "Command timed out after 30 seconds"
  /\ ExitedZero(TriggerLaunches[3].proc)

\* C30 (as claimed): a trigger call of server.py that reaches its loop calls
\* the debug sink exactly once, with the batch it then returns; a call that
\* returns before the loop does not call the sink.
C30_SinkCalledOnceAfterLoop ==
  last.op = "bb7_trigger_bulk" =>
    IF ReachedLoop
      THEN /\ Len(last.dumped) = 1
           /\ last.dumped[1].prefix = "trigger_bulk"
           /\ Returned => last.dumped[1].data = last.ret
      ELSE last.dumped = <<>>

\* both threads have left check_azure_cli_auth(); the calls that missed the
\* cache and computed a result
BothReturned == \A c \in Callers : callers[c].pc = "done"
Computed == {c \in Callers : callers[c].auth_result # None}

\* C27 (as claimed): when two threads have run check() at the same time and
\* both have returned, the cache holds the status and the time of one of the
\* calls that computed a result: both from the same call.
C27_CacheFromOneCall ==
  BothReturned =>
    \E c \in Computed :
      /\ auth_status_cache = callers[c].auth_result
      /\ auth_cache_time = callers[c].current_time

\* a call of find_azure_cli_path, and the candidates whose probe exits with
\* code 0 in the environment of the call
IsLocate == last.op = "find_azure_cli_path"
Accepting == {i \in 1..Len(Candidates) : ExitedZero(last.args[1][i])}

\* C31: find_azure_cli_path returns the first candidate, in the order of the
\* list, whose version probe exits with code 0, having probed that candidate
\* and the ones before it and no later one; probes that time out, do not
\* start or exit with another code are passed over; it returns None only
\* when no candidate is accepted, after probing all of them.
C31_FirstAcceptedCandidate ==
  IsLocate =>
    IF Accepting = {}
      THEN last.ret = NonePath /\ last.probes = Len(Candidates)
      ELSE \E i \in Accepting :
             /\ \A j \in Accepting : i <= j
             /\ last.ret = Candidates[i]
             /\ last.probes = i

\* the first probe times out, the second does not start, the third exits 0:
\* az.cmd is returned and the fourth candidate, which would answer, is not
\* probed
C31_Witness ==
  /\ IsLocate
  /\ last.args[1][1].kind = "TimeoutExpired"
  /\ last.args[1][2].kind = "OSError"
  /\ ExitedZero(last.args[1][3]) /\ ExitedZero(last.args[1][4])
  /\ last.ret = "az.cmd"
  /\ last.probes = 3

\* C32 (as claimed): run_az_command searches for the executable only for a
\* command whose first token is az, and then a failed search is returned as
\* a failure with no process launched; a command with another first token
\* makes no version probe and is launched as it was given.
C32_LocatorOnlyForToolCommands ==
  last.op = "run_az_command" =>
    IF last.args[1][1] = "az"
      THEN azure_cli_path = NonePath => (~last.ret.success /\ last.launched = <<>>)
      ELSE /\ last.probes = 0
           /\ Len(last.launched) = 1
           /\ last.launched[1].argv = last.args[1]

\* the processes of the verification the call launched, and the list commands
\* it handed to its runner
IsStageLaunch(e) == ~IsTriggerLaunch(e) /\ ~IsListLaunch(e)
StageLaunches == SelectSeq(last.launched, IsStageLaunch)
IsListCommand(command) ==
  Len(command) >= 4 /\ command[2] = "pipelines" /\ command[3] = "runs" /\ command[4] = "list"
ListCommands == SelectSeq(last.runs, IsListCommand)

\* the check_azure_cli_auth() of the call was positive: a fresh positive entry
\* was found, or the three commands of the verification exited with code 0
GatePassed ==
  \/ FoundFresh /\ last.before.cache.authenticated
  \/ /\ ~FoundFresh
     /\ Len(StageLaunches) = Len(StageCommands)
     /\ \A k \in 1..Len(StageLaunches) : ExitedZero(StageLaunches[k].proc)

\* C33: a list call of server.py whose name is in the catalog and whose auth
\* check is positive hands exactly one list command to its runner, launched
\* once; when that command fails, also with an error text that reads like an
\* authentication failure, the call returns an error and the auth cache holds
\* the positive status the check left there: the entry found if it was fresh,
\* a status stored with the time of the call otherwise.
C33_OneListCommandNoRetry ==
  (last.op = "bb7_list_runs" /\ PipelinesGet(last.args[1]) # None /\ GatePassed) =>
    /\ Len(ListCommands) = 1
    /\ Len(ListLaunches) = 1
    /\ ~ExitedZero(ListLaunches[1].proc) =>
         /\ Returned
         /\ "error" \in DOMAIN last.ret /\ "success" \notin DOMAIN last.ret
         /\ auth_status_cache # None /\ auth_status_cache.authenticated
         /\ FoundFresh => (auth_status_cache = last.before.cache
                           /\ auth_cache_time = last.before.time)
         /\ ~FoundFresh => auth_cache_time = Time(last.at)

\* a list call right after a positive check: the entry is fresh, the list
\* command is refused as unauthorized, the entry stays
C33_Witness ==
  /\ last.op = "bb7_list_runs" /\ last.prev.op = "check_azure_cli_auth"
  /\ FoundFresh /\ last.before.cache.authenticated
  /\ Len(ListLaunches) = 1
  /\ Mentions(ListLaunches[1].proc, "unauthorized")
  /\ "error" \in DOMAIN last.ret
  /\ auth_status_cache = last.before.cache /\ auth_cache_time = last.before.time

\* the abbreviations of the table the query starts with, and those of them
\* whose expansion is contained in a name of the catalog
Begun ==
  {k \in 1..Len(patterns) :
     /\ Len(Chars[patterns[k][1]]) <= Len(ResolveQuery)
     /\ SubSeq(ResolveQuery, 1, Len(Chars[patterns[k][1]])) = Chars[patterns[k][1]]}
Expanding(k) ==
  {i \in 1..Len(ResolveCatalog) :
     IsSubstring(Chars[patterns[k][2]], Lower(Chars[ResolveCatalog[i].name]))}
Yielding == {k \in Begun : Expanding(k) # {}}

\* C34: when no name equals or contains the query, find_pipeline takes the
\* first abbreviation of the table that the query starts with and whose
\* expansion some name contains, and returns the first entry, in the order of
\* the catalog, whose name contains that expansion; it returns None when
\* there is no such abbreviation.
C34_AbbreviationExpandsToFirstEntry ==
  (IsResolve /\ EqualTo = {} /\ Contain = {}) =>
    IF Yielding = {}
      THEN last.ret = None
      ELSE \E k \in Yielding :
             /\ \A l \in Yielding : k <= l
             /\ \E i \in Expanding(k) :
                  /\ \A j \in Expanding(k) : i <= j
                  /\ last.ret = ResolveCatalog[i]

\* "testing" against deploy-prod, integration-test: no name contains the
\* query, the query starts with "test" and the second name contains "test"
C34_Witness ==
  /\ IsResolve /\ last.args[1] = "testing"
  /\ Len(ResolveCatalog) = 2
  /\ ResolveCatalog[1].name = "deploy-prod" /\ ResolveCatalog[2].name = "integration-test"
  /\ EqualTo = {} /\ Contain = {}
  /\ Yielding = {3}
  /\ last.ret = ResolveCatalog[2]

\* C40: against a catalog that is not empty, a query that is empty once it is
\* stripped is always resolved: to the entry whose name is the empty text if
\* there is one, and otherwise, every name containing the empty text, to the
\* first entry of the catalog.
C40_EmptyQueryResolves ==
  (IsResolve /\ Len(ResolveCatalog) >= 1 /\ ResolveQuery = <<>>) =>
    /\ last.ret # None
    /\ EqualTo = {} => last.ret = ResolveCatalog[1]
    /\ EqualTo # {} => last.ret.name = ""

\* a query of blanks against deploy-prod, integration-main
C40_Witness ==
  /\ IsResolve /\ last.args[1] = " \t "
  /\ Len(ResolveCatalog) = 2
  /\ ResolveCatalog[1].name = "deploy-prod" /\ ResolveCatalog[2].name = "integration-main"
  /\ EqualTo = {}
  /\ last.ret = ResolveCatalog[1]

\* C39: a trigger call of server.py for no runs (count 0 or negative), with a
\* name of the catalog and a branch, still makes its auth check: unless it
\* finds a fresh entry it runs the verification and stores the result with
\* the time of the call; it hands no trigger command to the runner; with a
\* positive check it returns the empty batch, which it hands to the debug
\* sink, and with a negative check the batch of that status.
C39_NoRunsStillChecksAuth ==
  (/\ last.op = "bb7_trigger_bulk" /\ last.args[2] <= 0
   /\ ReachesAuthCheck(last.args[1], last.args[3])) =>
    /\ TriggerCommands = <<>> /\ TriggerLaunches = <<>>
    /\ IF FoundFresh
         THEN auth_status_cache = last.before.cache /\ auth_cache_time = last.before.time
         ELSE /\ last.runs # <<>> /\ last.runs[1] = CmdVersion
              /\ auth_cache_time = Time(last.at)
    /\ IF GatePassed
         THEN /\ Returned /\ last.ret = <<>>
              /\ last.dumped = <<[prefix |-> "trigger_bulk", data |-> <<>>]>>
         ELSE last.ret = <<auth_status_cache>> /\ last.dumped = <<>>

\* a call for -1 runs with an empty cache runs the three commands of the
\* verification and returns the empty batch
C39_Witness ==
  /\ last.op = "bb7_trigger_bulk" /\ last.args[2] = -1
  /\ last.args[1] = "integration-main"
  /\ last.before.cache = None
  /\ last.runs = <<CmdVersion, CmdAccountShow, CmdExtensionShow>>
  /\ auth_status_cache.authenticated
  /\ last.ret = <<>>

(***************************************************************************)
(* A batch that stops on an authentication error, and the call after it    *)
(***************************************************************************)

\* the last call was a bb7_trigger_bulk that left its loop before the
\* requested number of runs, on a failure whose text signals authentication
AbortedEarly ==
  /\ last.op = "bb7_trigger_bulk" /\ last.raised = NoException
  /\ Len(last.ret) > 0 /\ Len(last.ret) < last.args[2]
  /\ "run_number" \in DOMAIN last.ret[Len(last.ret)]
  /\ ~last.ret[Len(last.ret)].success
  /\ last.ret[Len(last.ret)].error \in AuthenticationErrors

\* the cache holds what the gate of the last call returned
GateEntryKept ==
  /\ auth_status_cache # None /\ auth_status_cache.authenticated
  /\ auth_cache_time # NoTime
  /\ FoundFresh => auth_status_cache = last.before.cache /\ auth_cache_time = last.before.time
  /\ ~FoundFresh => auth_cache_time = Time(last.at)

\* the step is a bb7_trigger_bulk for at least one run or a bb7_list_runs
\* that gets as far as the auth gate
NextReachesGate ==
  /\ last'.seq = last.seq + 1
  /\ \/ /\ last'.op = "bb7_trigger_bulk"
        /\ ReachesAuthCheck(last'.args[1], last'.args[3])
        /\ last'.args[2] >= 1
     \/ /\ last'.op = "bb7_list_runs"
        /\ PipelinesGet(last'.args[1]) # None

\* C36: a bb7_trigger_bulk that stops early on an authentication error leaves
\* the cache as its auth gate left it, a positive status with its timestamp;
\* a bb7_trigger_bulk or bb7_list_runs that follows before the entry is 300
\* seconds old passes the gate without a probe or a verification command,
\* leaves the entry alone, and launches its own command again.
C36_AbortKeepsCachedStatus ==
  /\ [](AbortedEarly => GateEntryKept)
  /\ [][(/\ AbortedEarly
         /\ NextReachesGate
         /\ auth_cache_time # NoTime
         /\ now - auth_cache_time[1] < AUTH_CACHE_DURATION)
        => /\ last'.probes = 0
           /\ \A k \in 1..Len(last'.runs) :
                last'.runs[k] \notin {CmdVersion, CmdAccountShow, CmdExtensionShow}
           /\ Len(last'.runs) >= 1
           /\ Len(last'.launched) = Len(last'.runs)
           /\ auth_status_cache' = auth_status_cache
           /\ auth_cache_time' = auth_cache_time]_vars

\* a second batch, started 150 seconds or more after one that stopped on an
\* authentication error, runs its trigger command without any verification
C36_Witness ==
  /\ last.op = "bb7_trigger_bulk" /\ last.prev.op = "bb7_trigger_bulk"
  /\ last.prev.stopped
  /\ last.at > last.prev.at
  /\ FoundFresh /\ last.before.cache.authenticated
  /\ last.probes = 0
  /\ Len(last.runs) >= 1
  /\ \A k \in 1..Len(last.runs) :
       last.runs[k] \notin {CmdVersion, CmdAccountShow, CmdExtensionShow}

(***************************************************************************)
(* The cached status and its timestamp                                     *)
(***************************************************************************)

\* C37: in every state reached by checks, clears, bb7_trigger_bulk,
\* bb7_list_runs and test_pipeline_access calls run one after the other, the
\* cached status and the cached timestamp are both absent or both present.
C37_StatusAndTimeTogether == (auth_status_cache = None) <=> (auth_cache_time = NoTime)

\* test_pipeline_access right after a clear stores a status and the time of
\* the call together
C37_Witness ==
  /\ last.op = "test_pipeline_access" /\ last.prev.op = "clear_auth_cache"
  /\ last.prev.before.cache # None
  /\ last.before.cache = None /\ last.before.time = NoTime
  /\ auth_status_cache # None /\ auth_cache_time = Time(last.at)

(***************************************************************************)
(* clear_auth_cache and the memoized path                                  *)
(***************************************************************************)

\* C38: a clear_auth_cache step empties the cached status and the cached
\* timestamp and changes neither the memoized path nor the clock; the call
\* made right after a clear, when a path is memoized, probes no candidate
\* and launches every process with that path.
C38_ClearKeepsPath ==
  [][/\ (last'.op = "clear_auth_cache" /\ last'.seq = last.seq + 1) =>
          /\ auth_status_cache' = None
          /\ auth_cache_time' = NoTime
          /\ azure_cli_path' = azure_cli_path
          /\ now' = now
     /\ (last.op = "clear_auth_cache" /\ azure_cli_path # NonePath
           /\ last'.seq = last.seq + 1) =>
          /\ last'.probes = 0
          /\ azure_cli_path' = azure_cli_path
          /\ \A k \in 1..Len(last'.launched) :
               last'.launched[k].argv[1] = azure_cli_path]_vars

\* a list call right after a clear that emptied a cached positive status:
\* three verification commands and the list command, no probe, all with the
\* path found before the clear
C38_Witness ==
  /\ last.op = "bb7_list_runs" /\ last.prev.op = "clear_auth_cache"
  /\ last.prev.before.cache # None /\ last.prev.before.cache.authenticated
  /\ last.before.cache = None
  /\ azure_cli_path # NonePath
  /\ last.probes = 0
  /\ Len(last.launched) = 4
  /\ \A k \in 1..4 : last.launched[k].argv[1] = azure_cli_path

(***************************************************************************)
(* bb7_trigger_bulk comes to its return                                    *)
(***************************************************************************)

\* the commands of the call so far: at most one pass through the three
\* verification commands, and at most count trigger commands
WithinBudget ==
  /\ call.auth_check.runs \in {<<>>, <<CmdVersion>>, <<CmdVersion, CmdAccountShow>>,
                               <<CmdVersion, CmdAccountShow, CmdExtensionShow>>}
  /\ call.pc # "idle" =>
       /\ Len(call.loop.runs) <= call.args[2]
       /\ Len(call.loop.launched) <= Len(call.loop.runs)
       /\ \A k \in 1..Len(call.loop.runs) :
            call.loop.runs[k] = TriggerCommand(PipelinesGet(call.args[1]), call.target_branch)

====
